---- MODULE Spec2Model ----
(***************************************************************************)
(* The resource cache of lib/cache: per-kind collections (store, upstream, *)
(* watch), the fetch/apply reinit step, the event handlers, the watch      *)
(* engine with its generation, and the read guard of the facade reads.     *)
(***************************************************************************)
EXTENDS Naturals, Sequences, FiniteSets, TLC

VARIABLES
    state,        \* watch engine state
    generation,   \* number of completed re-initializations
    watches,      \* Config.watches: the kinds this cache mirrors
    store,        \* per kind: the values held by the collection's store
    upstream,     \* per kind: the values held by the backend
    queue,        \* events in the subscription channel, oldest first
    writer,       \* the engine holds the cache-wide lock exclusively
    pending,      \* apply functions collected by fetch, not yet run
    applyPos,     \* position inside the apply function at the head of pending
    rd,           \* per reader: the facade read in progress
    faults,       \* backend failures injected so far
    writes,       \* backend writes performed so far
    expected,     \* per kind: the contents the installs and events call for
    delivered,    \* the events of the channel in the order the backend sent them
    fx,           \* one isolated fetch/apply call on a collection
    rst,           \* a resourceStore driven on its own
    sst,           \* a singletonStore driven on its own by concurrent callers
    fnc,           \* the FnCache and the cert-authority reads that go through it
    pg,            \* a caller walking the pages of ListUsers
    stm            \* one stream combinator applied to its inputs

vars == <<state, generation, watches, store, upstream, queue, writer, pending,
          applyPos, rd, faults, writes, expected, delivered, fx, rst, sst, fnc, pg, stm>>

(***************************************************************************)
(* Bounds of the model.                                                    *)
(***************************************************************************)
MaxFaults == 1
MaxWrites == 2
MaxCalls == 4
MaxTime == 1
MaxGen == 1
MaxLen == 3

(***************************************************************************)
(* Kinds and values.                                                       *)
(***************************************************************************)
KindUser == "user"
KindCertAuthority == "cert_authority"
KindStaticTokens == "static_tokens"
Kinds == {KindUser, KindCertAuthority, KindStaticTokens}

UserNames == {"alice", "bob"}
CATypes == {"user", "saml"}
DomainNames == {"root"}
Versions == {1, 2}

\* The watch filter of the cert-authority collection: the whitelisted types.
CAFilterTypes == {"user"}

\* The secret part of a value: password hashes of a user, signing keys of a
\* cert authority, the tokens of the static-tokens resource.
NoSecret == ""
Secrets == {NoSecret, "key"}

User(n, v) ==
    [kind |-> KindUser, name |-> n, type |-> "", ver |-> v, secret |-> NoSecret]
CertAuthority(t, d, v) ==
    [kind |-> KindCertAuthority, name |-> d, type |-> t, ver |-> v, secret |-> NoSecret]
StaticTokens(v) ==
    [kind |-> KindStaticTokens, name |-> "static-tokens", type |-> "", ver |-> v,
     secret |-> NoSecret]

Values(k) ==
    CASE k = KindUser -> {User(n, v) : n \in UserNames, v \in Versions}
      [] k = KindCertAuthority -> {CertAuthority(t, d, 1) : t \in CATypes, d \in DomainNames}
      [] k = KindStaticTokens -> {StaticTokens(1)}

AllValues == UNION {Values(k) : k \in Kinds}

\* The index functions of the stores: "name" for users, "id" for cert authorities.
Indexes(k) ==
    CASE k = KindUser -> {"name"}
      [] k = KindCertAuthority -> {"id"}
      [] OTHER -> {}

KeyOf(i, v) ==
    CASE i = "name" -> v.name
      [] i = "id" -> v.type \o "/" \o v.name

\* The identity key of a value: its key under the first index of its kind.
IdentityKey(v) ==
    CASE v.kind = KindUser -> KeyOf("name", v)
      [] v.kind = KindCertAuthority -> KeyOf("id", v)
      [] OTHER -> ""

\* CertAuthorityFilter.Match with the filter taken from the watch.
CAFilterMatch(v) == v.type \in CAFilterTypes

HasFilter_None(k) == FALSE

\* The stores built with newResourceStoreWithFilter.
HasFilter(k) == k = KindCertAuthority

Filter(k, v) == IF k = KindCertAuthority THEN CAFilterMatch(v) ELSE TRUE

IsSingletonStore(k) == k = KindStaticTokens

\* Well-formed store contents: one value per identity key, no rejected value.
StoreStates(k) ==
    {s \in SUBSET Values(k) :
        /\ \A a, b \in s : IdentityKey(a) = IdentityKey(b) => a = b
        /\ \A a \in s : Filter(k, a)}

BackendStates(k) ==
    {s \in SUBSET Values(k) : \A a, b \in s : IdentityKey(a) = IdentityKey(b) => a = b}

RECURSIVE SeqOf(_)
SeqOf(S) ==
    IF S = {} THEN <<>>
    ELSE LET x == CHOOSE y \in S : TRUE IN <<x>> \o SeqOf(S \ {x})

Range(s) == {s[i] : i \in 1..Len(s)}

(***************************************************************************)
(* SortCache and the stores.                                               *)
(***************************************************************************)
SortCachePut(k, s, v) ==
    {x \in s : \A i \in Indexes(k) : KeyOf(i, x) # KeyOf(i, v)} \cup {v}

SortCacheDelete(s, i, key) == {x \in s : KeyOf(i, x) # key}

SingletonPut(s, v) == {v}

ResourcePut(k, s, v) ==
    IF HasFilter(k) /\ ~Filter(k, v) THEN s ELSE SortCachePut(k, s, v)

RECURSIVE ResourceDeleteOver(_, _, _)
ResourceDeleteOver(is, s, v) ==
    IF is = {} THEN s
    ELSE LET i == CHOOSE j \in is : TRUE
         IN ResourceDeleteOver(is \ {i}, SortCacheDelete(s, i, KeyOf(i, v)), v)

ResourceDelete(k, s, v) == ResourceDeleteOver(Indexes(k), s, v)

StorePut(k, s, v) == IF IsSingletonStore(k) THEN SingletonPut(s, v) ELSE ResourcePut(k, s, v)

StoreDelete(k, s, v) == IF IsSingletonStore(k) THEN {} ELSE ResourceDelete(k, s, v)

StoreClear(s) == {}

(***************************************************************************)
(* The upstreams' getAll.                                                  *)
(***************************************************************************)
ErrNone == "none"
ErrNotFound == "NotFound"
ErrUnavailable == "Unavailable"
ErrBadParameter == "BadParameter"

\* resourceStore.get on store contents s: the value bound to key under index
\* i, as a set of one, or NotFound.
ResourceGet(s, i, key) ==
    LET hit == {x \in s : KeyOf(i, x) = key}
    IN IF hit = {} THEN [err |-> ErrNotFound, val |-> {}]
       ELSE [err |-> ErrNone, val |-> hit]

Answer(e, rs) == [err |-> e, resources |-> rs]

\* caUpstream.getAll keeps the authorities that match the watch filter.
CAGetAll(up) == Answer(ErrNone, SeqOf({v \in up : CAFilterMatch(v)}))

UserGetAll(up) == Answer(ErrNone, SeqOf(up))

\* staticTokensUpstream.getAll: the token, or the error of GetStaticTokens.
StaticTokensGetAll(up) ==
    IF up = {} THEN Answer(ErrNotFound, <<>>) ELSE Answer(ErrNone, SeqOf(up))

GetAll(k, up) ==
    CASE k = KindUser -> UserGetAll(up)
      [] k = KindCertAuthority -> CAGetAll(up)
      [] k = KindStaticTokens -> StaticTokensGetAll(up)

(***************************************************************************)
(* collection: fetch, its apply function, onUpdate, onDelete.              *)
(***************************************************************************)
Collection(k, single) == [kind |-> k, singleton |-> single]

\* The collections as the constructors build them: none sets singleton.
NewCollection(k) == Collection(k, FALSE)

NoApply == [c |-> Collection(KindUser, FALSE), cacheOK |-> FALSE,
            deleteSingleton |-> FALSE, resources |-> <<>>, valid |-> FALSE]

CallsUpstream_Always(cacheOK) == TRUE

\* fetch contacts the upstream only when the kind is cached in this generation.
CallsUpstream(cacheOK) == cacheOK

FetchFails_Inverted(ans) == ans.err # ErrNone /\ ans.err = ErrNotFound

FetchFails_AnyError(ans) == ans.err # ErrNone

\* The upstream error that aborts fetch: any error that is not NotFound.
FetchFails(ans) == ans.err # ErrNone /\ ans.err # ErrNotFound

DeleteSingleton_Never(cacheOK, ans) == FALSE

\* deleteSingleton: set when getAll answered NotFound.
DeleteSingleton(cacheOK, ans) == CallsUpstream(cacheOK) /\ ans.err # ErrNone

\* fetch(cacheOK): ans is the answer of getAll, read only when it is called.
Fetch(c, cacheOK, ans) ==
    IF CallsUpstream(cacheOK) /\ FetchFails(ans)
    THEN [err |-> ans.err, apply |-> NoApply]
    ELSE [err |-> ErrNone,
          apply |-> [c |-> c,
                     cacheOK |-> cacheOK,
                     deleteSingleton |-> DeleteSingleton(cacheOK, ans),
                     resources |-> IF CallsUpstream(cacheOK) THEN ans.resources ELSE <<>>,
                     valid |-> TRUE]]

ShouldClear_OnlyWhenCached(f) == (~f.c.singleton \/ f.deleteSingleton) /\ f.cacheOK

\* apply, first condition: whether the store is cleared.
ShouldClear(f) == ~f.c.singleton \/ f.deleteSingleton \/ ~f.cacheOK

\* apply, second condition: whether it returns before the puts.
ReturnsEarly(f) == (f.c.singleton /\ f.deleteSingleton) \/ ~f.cacheOK

ApplyClear_Skip(f, s) == s

\* apply up to its loop.
ApplyClear(f, s) == IF ShouldClear(f) THEN StoreClear(s) ELSE s

\* The resources the loop of apply puts.
ApplyPuts(f) == IF ReturnsEarly(f) THEN <<>> ELSE f.resources

\* One iteration of the loop of apply.
ApplyPut(f, s, i) == StorePut(f.c.kind, s, ApplyPuts(f)[i])

RECURSIVE ApplyPutsFrom(_, _, _)
ApplyPutsFrom(f, s, i) ==
    IF i > Len(ApplyPuts(f)) THEN s ELSE ApplyPutsFrom(f, ApplyPut(f, s, i), i + 1)

\* The whole apply function.
Apply(f, s) == ApplyPutsFrom(f, ApplyClear(f, s), 1)

Carriers == {"typed", "wrapped", "wrapped-other", "header", "other"}

Typed(v) == [carrier |-> "typed", val |-> v]

OnUpdate_KeepOld(k, s, r) ==
    IF r.carrier \in {"typed", "wrapped"}
    THEN [err |-> ErrNone,
          store |-> IF \E x \in s : IdentityKey(x) = IdentityKey(r.val)
                    THEN s ELSE StorePut(k, s, r.val)]
    ELSE [err |-> ErrBadParameter, store |-> s]

OnUpdate_AnyWrapper(k, s, r) ==
    IF r.carrier \in {"typed", "wrapped", "wrapped-other"}
    THEN [err |-> ErrNone, store |-> StorePut(k, s, r.val)]
    ELSE [err |-> ErrBadParameter, store |-> s]

\* onUpdate: the carrier is unwrapped or typed to T, then put.
OnUpdate(k, s, r) ==
    IF r.carrier \in {"typed", "wrapped"}
    THEN [err |-> ErrNone, store |-> StorePut(k, s, r.val)]
    ELSE [err |-> ErrBadParameter, store |-> s]

\* onDelete: as onUpdate, and a bare header is rejected.
OnDelete(k, s, r) ==
    IF r.carrier \in {"typed", "wrapped"}
    THEN [err |-> ErrNone, store |-> StoreDelete(k, s, r.val)]
    ELSE [err |-> ErrBadParameter, store |-> s]

\* types.ResourceHeader of a value: its kind, sub-kind and name.
Header(v) == [kind |-> v.kind, type |-> v.type, name |-> v.name]

\* headerTransform: a T that has the identity of the header and nothing else.
HeaderTransform(h) ==
    [kind |-> h.kind, name |-> h.name, type |-> h.type, ver |-> 0, secret |-> NoSecret]

UsesTransform_Never(ht) == FALSE

\* c.headerTransform != nil
UsesTransform(ht) == ht

\* onDelete of a collection built with (ht) or without a headerTransform: a
\* bare header is transformed and deleted, or rejected as in OnDelete.
OnDeleteHeader(k, ht, s, r) ==
    IF r.carrier = "header" /\ UsesTransform(ht)
    THEN [err |-> ErrNone, store |-> StoreDelete(k, s, HeaderTransform(r.val))]
    ELSE OnDelete(k, s, r)

(***************************************************************************)
(* The watch engine.                                                       *)
(***************************************************************************)
Initializing == "Initializing"
Snapshotting == "Snapshotting"
Serving == "Serving"
Recovering == "Recovering"
Closed == "Closed"
States == {Initializing, Snapshotting, Serving, Recovering, Closed}

\* The order in which the collections are fetched and applied.
KindOrder == <<KindStaticTokens, KindCertAuthority, KindUser>>

InWatches(k) == k \in watches

Collections == SelectSeq(KindOrder, InWatches)

WatchConfigs == {Kinds, {KindUser, KindStaticTokens}}

Upsert == "Upsert"
Delete == "Delete"

Event(o, v) == [op |-> o, kind |-> v.kind, res |-> Typed(v)]

Readers == {"r1"}

ReadCache == "ReadCache"
ReadUpstream == "ReadUpstream"

\* A facade read: its arguments (secrets is withSecrets / loadSigningKeys; token
\* and size are the page request of ListUsers), the guard it holds, and what it
\* returned (touched: the store was read; upcalls: the upstream reads it made).
\* fail: the upstream is unavailable while the read runs.
\* A request's user filter, by the names it rejects; the nil filter rejects none.
NoFilter == {}

Idle == [pc |-> "idle", op |-> "", arg |-> "", secrets |-> FALSE, token |-> <<>>,
         size |-> 0, filter |-> NoFilter, fail |-> FALSE, guard |-> "", src |-> "", touched |-> FALSE,
         upcalls |-> 0, err |-> ErrNone, result |-> {}, next |-> <<>>]

\* A read guard that serves from the cache is outstanding.
GuardHeld == \E r \in Readers : rd[r].pc # "idle" /\ rd[r].guard = ReadCache

SubscriptionOpen == state \in {Snapshotting, Serving}

NextGeneration_AlsoOnRecover(g, st) == g + 1

\* The generation after the engine leaves state st having run all applies.
NextGeneration(g, st) == IF st = Snapshotting THEN g + 1 ELSE g

SameKey(S, v) == {x \in S : IdentityKey(x) = IdentityKey(v)}

\* What an event calls for: the last event for an identity key decides whether
\* a value is present and which; an upsert the filter rejects changes nothing.
EventCallsFor(e, S) ==
    IF e.op = Delete THEN S \ SameKey(S, e.res.val)
    ELSE IF Filter(e.kind, e.res.val) THEN (S \ SameKey(S, e.res.val)) \cup {e.res.val}
    ELSE S

\* What a reinit calls for: the admitted values of the snapshot, or nothing
\* when the kind is not cached.
InstallCallsFor(f) ==
    IF f.cacheOK THEN {v \in Range(f.resources) : Filter(f.c.kind, v)} ELSE {}

RsOff == [on |-> FALSE]

SsOff == [on |-> FALSE]

FnOff == [on |-> FALSE]

PgOff == [on |-> FALSE]

StmOff == [on |-> FALSE]

\* The isolated fetch/apply call: its inputs and what it did so far.
FxOff == [phase |-> "off", c |-> NewCollection(KindUser), cacheOK |-> FALSE,
          ans |-> Answer(ErrNone, <<>>), err |-> ErrNone, contacted |-> FALSE,
          store0 |-> {}, updates |-> {}]

Init ==
    /\ state = Initializing
    /\ generation = 0
    /\ watches \in WatchConfigs
    /\ store = [k \in Kinds |-> {}]
    /\ upstream = [k \in Kinds |-> {}]
    /\ queue = <<>>
    /\ writer = FALSE
    /\ pending = <<>>
    /\ applyPos = 0
    /\ rd = [r \in Readers |-> Idle]
    /\ faults = 0
    /\ writes = 0
    /\ expected = [k \in Kinds |-> {}]
    /\ delivered = <<>>
    /\ fx = FxOff
    /\ rst = RsOff
    /\ sst = SsOff
    /\ fnc = FnOff
    /\ pg = PgOff
    /\ stm = StmOff

\* Initializing: the subscription is open and the watch is established.
WatchEstablished ==
    /\ state = Initializing
    /\ state' = Snapshotting
    /\ queue' = <<>>
    /\ delivered' = <<>>
    /\ pending' = <<>>
    /\ UNCHANGED <<generation, watches, store, upstream, writer, applyPos, rd,
                   faults, writes, expected, fx, rst, sst,
                   fnc, pg, stm>>

\* An error ends the running phase: the engine enters Recovering.
EnterRecovering ==
    /\ state' = Recovering
    /\ queue' = <<>>
    /\ delivered' = <<>>
    /\ pending' = <<>>

\* Initializing: the backend refuses the subscription.
SubscribeFail ==
    /\ state = Initializing
    /\ faults < MaxFaults
    /\ faults' = faults + 1
    /\ EnterRecovering
    /\ UNCHANGED <<generation, watches, store, upstream, writer, applyPos, rd,
                   writes, expected, fx, rst, sst,
                   fnc, pg, stm>>

\* The answers getAll can give: the backend's contents, or a failure.
GetAllAnswers(k) ==
    {GetAll(k, upstream[k])}
    \cup (IF faults < MaxFaults THEN {Answer(ErrUnavailable, <<>>)} ELSE {})

\* Snapshotting: fetch(cacheOK = true) of the next collection, outside the lock.
FetchCollection ==
    /\ state = Snapshotting
    /\ ~writer
    /\ Len(pending) < Len(Collections)
    /\ LET k == Collections[Len(pending) + 1]
       IN \E ans \in GetAllAnswers(k) :
            LET r == Fetch(NewCollection(k), TRUE, ans)
            IN /\ faults' = IF ans.err = ErrUnavailable THEN faults + 1 ELSE faults
               /\ IF r.err # ErrNone
                  THEN EnterRecovering
                  ELSE /\ pending' = Append(pending, r.apply)
                       /\ UNCHANGED <<state, queue, delivered>>
    /\ UNCHANGED <<generation, watches, store, upstream, writer, applyPos, rd,
                   writes, expected, fx, rst, sst,
                   fnc, pg, stm>>

\* Recovering: fetch(cacheOK = false) of every collection.
RecoverFetch ==
    /\ state = Recovering
    /\ ~writer
    /\ Len(pending) < Len(Collections)
    /\ pending' = [i \in 1..Len(Collections) |->
                      Fetch(NewCollection(Collections[i]), FALSE, Answer(ErrNone, <<>>)).apply]
    /\ UNCHANGED <<state, generation, watches, store, upstream, queue, writer,
                   applyPos, rd, faults, writes, expected, delivered, fx, rst, sst,
                   fnc, pg, stm>>

\* The engine takes the cache-wide lock exclusively once every guard is released.
AcquireWriter ==
    /\ state \in {Snapshotting, Recovering}
    /\ ~writer
    /\ Len(pending) = Len(Collections)
    /\ ~GuardHeld
    /\ writer' = TRUE
    /\ applyPos' = 0
    /\ UNCHANGED <<state, generation, watches, store, upstream, queue, pending,
                   rd, faults, writes, expected, delivered, fx, rst, sst,
                   fnc, pg, stm>>

\* Under the lock: the apply function at the head of pending up to its loop.
ApplyClearStep ==
    /\ writer
    /\ pending # <<>>
    /\ applyPos = 0
    /\ LET f == Head(pending)
       IN /\ store' = [store EXCEPT ![f.c.kind] = ApplyClear(f, @)]
          /\ expected' = [expected EXCEPT ![f.c.kind] = InstallCallsFor(f)]
          /\ IF Len(ApplyPuts(f)) = 0
             THEN pending' = Tail(pending) /\ applyPos' = 0
             ELSE pending' = pending /\ applyPos' = 1
    /\ UNCHANGED <<state, generation, watches, upstream, queue, writer, rd,
                   faults, writes, delivered, fx, rst, sst,
                   fnc, pg, stm>>

\* Under the lock: one put of the loop of the apply function.
ApplyPutStep ==
    /\ writer
    /\ pending # <<>>
    /\ applyPos > 0
    /\ LET f == Head(pending)
       IN /\ store' = [store EXCEPT ![f.c.kind] = ApplyPut(f, @, applyPos)]
          /\ IF applyPos = Len(ApplyPuts(f))
             THEN pending' = Tail(pending) /\ applyPos' = 0
             ELSE pending' = pending /\ applyPos' = applyPos + 1
    /\ UNCHANGED <<state, generation, watches, upstream, queue, writer, rd,
                   faults, writes, expected, delivered, fx, rst, sst,
                   fnc, pg, stm>>

\* Every apply has run: Snapshotting advances the generation and serves reads,
\* Recovering backs off and re-enters Initializing.
ApplyDone(next) ==
    /\ writer
    /\ pending = <<>>
    /\ generation' = NextGeneration(generation, state)
    /\ writer' = FALSE
    /\ state' = next
    /\ UNCHANGED <<watches, store, upstream, queue, pending, applyPos, rd,
                   faults, writes, expected, delivered, fx, rst, sst,
                   fnc, pg, stm>>

Commit == state = Snapshotting /\ ApplyDone(Serving)

RecoverDone == state = Recovering /\ ApplyDone(Initializing)

\* The handler's effect on the store; an event the handler rejects is dropped.
HandleEvent(e, s) ==
    LET r == IF e.op = Upsert THEN OnUpdate(e.kind, s, e.res) ELSE OnDelete(e.kind, s, e.res)
    IN r.store

\* The engine consumes the subscription channel oldest event first.
TakeEvent(q) == [event |-> Head(q), rest |-> Tail(q)]

\* Serving: the next event goes to the handler of its kind.
ProcessEvent ==
    /\ state = Serving
    /\ queue # <<>>
    /\ LET t == TakeEvent(queue)
       IN /\ queue' = t.rest
          /\ store' = [store EXCEPT ![t.event.kind] = HandleEvent(t.event, @)]
    /\ expected' = [expected EXCEPT ![Head(delivered).kind] = EventCallsFor(Head(delivered), @)]
    /\ delivered' = Tail(delivered)
    /\ UNCHANGED <<state, generation, watches, upstream, writer, pending,
                   applyPos, rd, faults, writes, fx, rst, sst,
                   fnc, pg, stm>>

\* Serving: the watch stream closes.
WatchError ==
    /\ state = Serving
    /\ faults < MaxFaults
    /\ faults' = faults + 1
    /\ EnterRecovering
    /\ UNCHANGED <<generation, watches, store, upstream, writer, applyPos, rd,
                   writes, expected, fx, rst, sst,
                   fnc, pg, stm>>

\* The cache is closed: the stream is unsubscribed once no apply is in flight.
Close ==
    /\ state # Closed
    /\ ~writer
    /\ state' = Closed
    /\ queue' = <<>>
    /\ delivered' = <<>>
    /\ pending' = <<>>
    /\ UNCHANGED <<generation, watches, store, upstream, writer, applyPos, rd,
                   faults, writes, expected, fx, rst, sst,
                   fnc, pg, stm>>

(***************************************************************************)
(* The backend: writes, each delivered to an open subscription.            *)
(***************************************************************************)
Deliver(e) ==
    IF SubscriptionOpen /\ e.kind \in watches
    THEN /\ queue' = Append(queue, e)
         /\ delivered' = Append(delivered, e)
    ELSE UNCHANGED <<queue, delivered>>

BackendUpsert ==
    /\ state # Closed
    /\ writes < MaxWrites
    /\ \E v \in AllValues :
        /\ v \notin upstream[v.kind]
        /\ upstream' = [upstream EXCEPT ![v.kind] = (@ \ SameKey(@, v)) \cup {v}]
        /\ Deliver(Event(Upsert, v))
    /\ writes' = writes + 1
    /\ UNCHANGED <<state, generation, watches, store, writer, pending, applyPos,
                   rd, faults, expected, fx, rst, sst,
                   fnc, pg, stm>>

BackendDelete ==
    /\ state # Closed
    /\ writes < MaxWrites
    /\ \E v \in AllValues :
        /\ v \in upstream[v.kind]
        /\ upstream' = [upstream EXCEPT ![v.kind] = @ \ {v}]
        /\ Deliver(Event(Delete, v))
    /\ writes' = writes + 1
    /\ UNCHANGED <<state, generation, watches, store, writer, pending, applyPos,
                   rd, faults, expected, fx, rst, sst,
                   fnc, pg, stm>>

(***************************************************************************)
(* The read guard and the facade reads.                                    *)
(***************************************************************************)
GetUser == "GetUser"
GetUsers == "GetUsers"
ListUsers == "ListUsers"
GetCertAuthority == "GetCertAuthority"
GetCertAuthorities == "GetCertAuthorities"
GetStaticTokens == "GetStaticTokens"

Call(op, arg, secrets) ==
    [op |-> op, arg |-> arg, secrets |-> secrets, token |-> <<>>, size |-> 0,
     filter |-> NoFilter, fail |-> FALSE]

ReadCalls ==
    {Call(GetUsers, "", FALSE), Call(GetStaticTokens, "", FALSE)}
    \cup {Call(GetCertAuthorities, t, FALSE) : t \in CATypes}

OpKind(op) ==
    CASE op \in {GetUser, GetUsers, ListUsers} -> KindUser
      [] op \in {GetCertAuthority, GetCertAuthorities} -> KindCertAuthority
      [] op = GetStaticTokens -> KindStaticTokens

\* acquire(watch_kind): ReadCache only in Serving for a watched kind.
AcquireReadGuard(k) ==
    IF state = Serving /\ k \in watches THEN ReadCache ELSE ReadUpstream

ServedFromStore_Always(rg) == TRUE

ServedFromStore_Negated(rg) == rg # ReadCache

\* rg.ReadCache(): the branch of the facade read that reads the store.
ServedFromStore(rg) == rg = ReadCache

BypassesCache_Never(call) == FALSE

\* "cache never tracks user secrets": the user reads called with withSecrets
\* return the upstream's answer before any guard is acquired.
BypassesCache(call) == call.op \in {GetUser, GetUsers, ListUsers} /\ call.secrets

\* Clone: an independent copy, equal to the value.
Clone(v) == v

\* WithoutSecrets: the value with its secret part removed.
WithoutSecrets(v) == [v EXCEPT !.secret = NoSecret]

Project_Keep(secrets, v) == Clone(v)

\* What the store closure hands out for a stored value.
Project(secrets, v) == IF secrets THEN Clone(v) ELSE WithoutSecrets(v)

\* Byte-wise string order.
RECURSIVE LexLess(_, _)
LexLess(a, b) ==
    IF b = <<>> THEN FALSE
    ELSE IF a = <<>> THEN TRUE
    ELSE IF Head(a) # Head(b) THEN Head(a) < Head(b)
    ELSE LexLess(Tail(a), Tail(b))

\* The bytes of the strings that are compared as keys.
Bytes(str) ==
    CASE str = "" -> <<>>
      [] str = "/" -> <<47>>
      [] str = "alice" -> <<97, 108, 105, 99, 101>>
      [] str = "bob" -> <<98, 111, 98>>
      [] str = "carol" -> <<99, 97, 114, 111, 108>>
      [] str = "root" -> <<114, 111, 111, 116>>
      [] str = "user" -> <<117, 115, 101, 114>>
      [] str = "saml" -> <<115, 97, 109, 108>>
      [] str = "db" -> <<100, 98>>
      [] str = "db_client" -> <<100, 98, 95, 99, 108, 105, 101, 110, 116>>

\* sortcache.NextKey: the least key above every key with prefix k (the last
\* byte is incremented; no key of the model ends in 0xff).
NextKey(k) == IF k = <<>> THEN <<>> ELSE [k EXCEPT ![Len(k)] = @ + 1]

\* The "id" key of a cert authority, string(Type) + "/" + DomainName, as bytes.
IdBytes(v) == Bytes(v.type) \o Bytes("/") \o Bytes(v.name)

\* store.iterate("id", caType, NextKey(caType)): the keys in
\* [caType, NextKey(caType)).
InTypeRange(v, caType) ==
    /\ ~LexLess(IdBytes(v), Bytes(caType))
    /\ LexLess(IdBytes(v), NextKey(Bytes(caType)))

\* The stored values a list read visits.
View(op, arg, s) ==
    IF op = GetCertAuthorities THEN {v \in s : InTypeRange(v, arg)} ELSE s

\* The upstream's values a list read is about.
UpstreamView(op, arg, up) ==
    IF op = GetCertAuthorities THEN {v \in up : v.type = arg} ELSE up

\* backend.RangeEnd(backend.ExactKey(name)) with the separators trimmed: the
\* key "/name/" with its last byte incremented, "/name0", trimmed to "name0".
RangeEndToken(name) == Bytes(name) \o <<48>>

\* req.Filter != nil && !req.Filter.Match(uv2), negated.
Match(filter, u) == u.name \notin filter

PageFull_Never(n, size) == FALSE

\* len(resp.Users) == int(req.PageSize)
PageFull(n, size) == n = size

\* A page of ListUsers over users s: iterate "name" from the token, skipping
\* the users the filter rejects; the user met when the page is full gives the
\* next token and ends the loop.
Page(secrets, filter, token, size, s) ==
    LET from == {u \in s : ~LexLess(Bytes(u.name), token) /\ Match(filter, u)}
        Rank(u) == Cardinality({w \in from : LexLess(Bytes(w.name), Bytes(u.name))})
        more == {u \in from : PageFull(Rank(u), size)}
    IN [err |-> ErrNone,
        result |-> {Project(secrets, u) : u \in {w \in from : Rank(w) < size}},
        next |-> IF more = {} THEN <<>>
                 ELSE RangeEndToken((CHOOSE u \in more : TRUE).name)]

\* One value looked up by key k under index i, or NotFound.
Lookup(secrets, s, i, k) ==
    LET g == ResourceGet(s, i, k)
    IN [err |-> g.err, result |-> {Project(secrets, v) : v \in g.val}, next |-> <<>>]

\* The upstream's answer to the read; the upstream hands out secrets only when
\* they are asked for.
UpstreamRead(call, up) ==
    CASE call.fail -> [err |-> ErrUnavailable, result |-> {}, next |-> <<>>]
      [] call.op = GetUser -> Lookup(call.secrets, up, "name", call.arg)
      [] call.op = GetCertAuthority -> Lookup(call.secrets, up, "id", call.arg)
      [] call.op = ListUsers -> Page(call.secrets, call.filter, call.token, call.size, up)
      [] call.op = GetStaticTokens ->
            [err |-> IF up = {} THEN ErrNotFound ELSE ErrNone, result |-> up,
             next |-> <<>>]
      [] OTHER ->
            [err |-> ErrNone,
             result |-> {Project(call.secrets, v) :
                            v \in UpstreamView(call.op, call.arg, up)},
             next |-> <<>>]

\* trace.IsNotFound(err) of the store's error: the fallback is tried.
FallsBack(storeErr) == storeErr = ErrNotFound

FallbackError_Upstream(storeErr, upErr) == upErr

\* The error returned when the fallback read failed: trace.Wrap(err) of the
\* store's error (the fallback's error is local to the if statement).
FallbackError(storeErr, upErr) == storeErr

\* The store closure of the read, on store contents s with upstream up.  A
\* NotFound of GetUser and GetCertAuthority falls back to one upstream read.
StoreRead(call, s, up) ==
    LET fromStore(a) == [src |-> "store", err |-> a.err, result |-> a.result,
                         next |-> a.next, upcalls |-> 0]
        single(i) ==
            LET g == Lookup(call.secrets, s, i, call.arg)
                u == UpstreamRead(call, up)
            IN IF g.err = ErrNone \/ ~FallsBack(g.err) THEN fromStore(g)
               ELSE IF u.err = ErrNone
               THEN [src |-> "upstream", err |-> ErrNone, result |-> u.result,
                     next |-> <<>>, upcalls |-> 1]
               ELSE [src |-> "store", err |-> FallbackError(g.err, u.err),
                     result |-> {}, next |-> <<>>, upcalls |-> 1]
    IN CASE call.op = GetUser -> single("name")
         [] call.op = GetCertAuthority -> single("id")
         [] call.op = ListUsers ->
               fromStore(Page(call.secrets, call.filter, call.token, call.size, s))
         [] call.op = GetStaticTokens ->
               fromStore([err |-> IF s = {} THEN ErrNotFound ELSE ErrNone,
                          result |-> s, next |-> <<>>])
         [] OTHER ->
               fromStore([err |-> ErrNone,
                          result |-> {Project(call.secrets, v) :
                                         v \in View(call.op, call.arg, s)},
                          next |-> <<>>])

\* Entering a facade read with one of the calls: the bypass of the user reads,
\* else the read guard (which waits for the writer).
AcquireFor(r, calls) ==
    /\ rd[r].pc = "idle"
    /\ \E call \in calls :
        LET cur == [Idle EXCEPT !.op = call.op, !.arg = call.arg,
                                !.secrets = call.secrets, !.token = call.token,
                                !.size = call.size, !.filter = call.filter,
                                !.fail = call.fail]
            u == UpstreamRead(call, upstream[OpKind(call.op)])
        IN IF BypassesCache(call)
           THEN rd' = [rd EXCEPT ![r] = [cur EXCEPT !.pc = "done", !.src = "upstream",
                                                    !.upcalls = 1,
                                                    !.err = u.err, !.result = u.result,
                                                    !.next = u.next]]
           ELSE /\ ~writer
                /\ rd' = [rd EXCEPT ![r] =
                            [cur EXCEPT !.pc = "guarded",
                                        !.guard = AcquireReadGuard(OpKind(call.op))]]
    /\ UNCHANGED <<state, generation, watches, store, upstream, queue, writer,
                   pending, applyPos, faults, writes, expected, delivered, fx, rst, sst,
                   fnc, pg, stm>>

Acquire(r) == AcquireFor(r, ReadCalls)

ReadStep(r) ==
    /\ rd[r].pc = "guarded"
    /\ LET cur == rd[r]
           k == OpKind(cur.op)
           a == StoreRead(cur, store[k], upstream[k])
           u == UpstreamRead(cur, upstream[k])
       IN rd' = [rd EXCEPT ![r] =
                    IF ServedFromStore(cur.guard)
                    THEN [cur EXCEPT !.pc = "done", !.src = a.src, !.touched = TRUE,
                                     !.upcalls = a.upcalls,
                                     !.err = a.err, !.result = a.result,
                                     !.next = a.next]
                    ELSE [cur EXCEPT !.pc = "done", !.src = "upstream",
                                     !.upcalls = 1,
                                     !.err = u.err, !.result = u.result,
                                     !.next = u.next]]
    /\ UNCHANGED <<state, generation, watches, store, upstream, queue, writer,
                   pending, applyPos, faults, writes, expected, delivered, fx, rst, sst,
                   fnc, pg, stm>>

\* rg.Release()
Release(r) ==
    /\ rd[r].pc \in {"done", "mutated"}
    /\ rd' = [rd EXCEPT ![r] = Idle]
    /\ UNCHANGED <<state, generation, watches, store, upstream, queue, writer,
                   pending, applyPos, faults, writes, expected, delivered, fx, rst, sst,
                   fnc, pg, stm>>

EngineNext ==
    \/ WatchEstablished
    \/ SubscribeFail
    \/ FetchCollection
    \/ RecoverFetch
    \/ AcquireWriter
    \/ ApplyClearStep
    \/ ApplyPutStep
    \/ Commit
    \/ RecoverDone
    \/ ProcessEvent
    \/ WatchError

Next ==
    \/ EngineNext
    \/ Close
    \/ BackendUpsert
    \/ BackendDelete
    \/ \E r \in Readers : Acquire(r)
    \/ \E r \in Readers : ReadStep(r)
    \/ \E r \in Readers : Release(r)

Spec == Init /\ [][Next]_vars

(***************************************************************************)
(* The facade reads with and without secrets, in every engine state, on    *)
(* stores and upstreams whose values carry secrets.                        *)
(***************************************************************************)
\* Cert-authority types of which one is a prefix of another.
PrefixCATypes == {"db", "db_client"}

SecretValues(k) ==
    CASE k = KindUser -> {[User(n, 1) EXCEPT !.secret = x] : n \in UserNames, x \in Secrets}
      [] k = KindCertAuthority ->
            {[CertAuthority(t, d, 1) EXCEPT !.secret = x] :
                t \in PrefixCATypes, d \in DomainNames, x \in Secrets}
      [] k = KindStaticTokens -> {[StaticTokens(1) EXCEPT !.secret = x] : x \in Secrets}

\* Contents with one value per identity key (the watch admits both types).
SecretStates(k) ==
    {s \in SUBSET SecretValues(k) : \A a, b \in s : IdentityKey(a) = IdentityKey(b) => a = b}

PageSizes == {1, 2}

PageTokens ==
    {<<>>} \cup {Bytes(n) : n \in UserNames} \cup {RangeEndToken(n) : n \in UserNames}

FacadeCalls ==
    {Call(GetUser, n, x) : n \in UserNames, x \in BOOLEAN}
    \cup {Call(GetUsers, "", x) : x \in BOOLEAN}
    \cup {[Call(ListUsers, "", x) EXCEPT !.token = t, !.size = n] :
            x \in BOOLEAN, t \in PageTokens, n \in PageSizes}
    \cup {Call(GetCertAuthority, t \o "/" \o d, x) :
            t \in PrefixCATypes, d \in DomainNames, x \in BOOLEAN}
    \cup {Call(GetCertAuthorities, t, x) : t \in PrefixCATypes, x \in BOOLEAN}
    \cup {Call(GetStaticTokens, "", FALSE)}
    \cup {[Call(GetUser, n, x) EXCEPT !.fail = TRUE] : n \in UserNames, x \in BOOLEAN}
    \cup {[Call(GetCertAuthority, t \o "/" \o d, x) EXCEPT !.fail = TRUE] :
            t \in PrefixCATypes, d \in DomainNames, x \in BOOLEAN}

\* Any engine state; one kind holds data in the store (when watched) and upstream.
ReadInit ==
    /\ state \in States
    /\ \E k \in Kinds :
         /\ watches \in {Kinds, Kinds \ {k}}
         /\ \E s0 \in SecretStates(k), up \in SecretStates(k) :
              /\ store = [j \in Kinds |-> IF j = k /\ k \in watches THEN s0 ELSE {}]
              /\ upstream = [j \in Kinds |-> IF j = k THEN up ELSE {}]
    /\ expected = store
    /\ generation = 0
    /\ queue = <<>>
    /\ writer = FALSE
    /\ pending = <<>>
    /\ applyPos = 0
    /\ rd = [r \in Readers |-> Idle]
    /\ faults = 0
    /\ writes = 0
    /\ delivered = <<>>
    /\ fx = FxOff
    /\ rst = RsOff
    /\ sst = SsOff
    /\ fnc = FnOff
    /\ pg = PgOff
    /\ stm = StmOff

FacadeRead(r) == AcquireFor(r, FacadeCalls)

\* The store closure hands out the stored object itself: GetStaticTokens returns
\* what store.get loaded through the pointer, without Clone; the other reads
\* return the result of Clone or WithoutSecrets.
HandsOutInterior(op) == op = GetStaticTokens

\* The caller changes a value it was given by a store-served read.  The change
\* reaches the store when the value is the stored object.
CallerMutate(r) ==
    /\ rd[r].pc = "done"
    /\ rd[r].src = "store"
    /\ \E v \in rd[r].result, x \in Secrets :
         LET w == [v EXCEPT !.secret = x]
             k == OpKind(rd[r].op)
         IN /\ x # v.secret
            /\ rd' = [rd EXCEPT ![r].pc = "mutated",
                                ![r].result = (@ \ {v}) \cup {w}]
            /\ store' = IF HandsOutInterior(rd[r].op)
                        THEN [store EXCEPT ![k] = (@ \ {v}) \cup {w}]
                        ELSE store
    /\ UNCHANGED <<state, generation, watches, upstream, queue, writer, pending,
                   applyPos, faults, writes, expected, delivered, fx, rst, sst,
                   fnc, pg, stm>>

ReadNext ==
    \/ \E r \in Readers : FacadeRead(r)
    \/ \E r \in Readers : ReadStep(r)
    \/ \E r \in Readers : CallerMutate(r)
    \/ \E r \in Readers : Release(r)

ReadSpec == ReadInit /\ [][ReadNext]_vars

(***************************************************************************)
(* The handlers of one collection, called with every carrier an event can  *)
(* hold.                                                                   *)
(***************************************************************************)
\* The resources an event for a collection of kind k can carry: a T, a wrapper
\* around a T, a wrapper around a value of another type, a bare header, and a
\* resource of another type.
CarriersOf(k) ==
    {[carrier |-> c, val |-> v] : c \in {"typed", "wrapped"}, v \in Values(k)}
    \cup {[carrier |-> c, val |-> v] :
            c \in {"wrapped-other", "other"}, v \in AllValues \ Values(k)}
    \cup {[carrier |-> "header", val |-> Header(v)] : v \in Values(k)}

HandlerInit ==
    /\ \E k \in Kinds, ht \in BOOLEAN :
         \E s0 \in StoreStates(k) :
            /\ watches = {k}
            /\ store = [j \in Kinds |-> IF j = k THEN s0 ELSE {}]
            /\ fx = [phase |-> "handler", c |-> NewCollection(k), ht |-> ht,
                     op |-> "", res |-> Typed(StaticTokens(1)), err |-> ErrNone,
                     store0 |-> s0]
    /\ expected = store
    /\ state = Serving
    /\ generation = 0
    /\ upstream = [k \in Kinds |-> {}]
    /\ queue = <<>>
    /\ writer = FALSE
    /\ pending = <<>>
    /\ applyPos = 0
    /\ rd = [r \in Readers |-> Idle]
    /\ faults = 0
    /\ writes = 0
    /\ delivered = <<>>
    /\ rst = RsOff
    /\ sst = SsOff
    /\ fnc = FnOff
    /\ pg = PgOff
    /\ stm = StmOff

HandlerFrame ==
    UNCHANGED <<state, generation, watches, upstream, queue, writer, pending,
                applyPos, rd, faults, writes, expected, delivered, rst, sst, fnc, pg, stm>>

\* One call of a handler: the resource it was given, its error, and the store
\* it found (store0).
HandlerCall(op, r, out) ==
    /\ store' = [store EXCEPT ![fx.c.kind] = out.store]
    /\ fx' = [fx EXCEPT !.op = op, !.res = r, !.err = out.err,
                        !.store0 = store[fx.c.kind]]
    /\ HandlerFrame

HandlerUpdate ==
    \E r \in CarriersOf(fx.c.kind) :
        HandlerCall(Upsert, r, OnUpdate(fx.c.kind, store[fx.c.kind], r))

HandlerDelete ==
    \E r \in CarriersOf(fx.c.kind) :
        HandlerCall(Delete, r, OnDeleteHeader(fx.c.kind, fx.ht, store[fx.c.kind], r))

HandlerNext == HandlerUpdate \/ HandlerDelete

HandlerSpec == HandlerInit /\ [][HandlerNext]_vars

(***************************************************************************)
(* A caller lists the users page by page: each ListUsers request carries   *)
(* the token of the previous response, until a response has no token.      *)
(***************************************************************************)
PageNames == {"alice", "bob", "carol"}

\* The stores the walk runs on: any set of users, one value per name.
PageStores ==
    {s \in SUBSET {User(n, v) : n \in PageNames, v \in Versions} :
        \A a, b \in s : a.name = b.name => a = b}

\* The filters of the walk: none, one that rejects a user in the middle and
\* one that rejects the last user.
PageFilters == {NoFilter, {"bob"}, {"carol"}}

PageInit ==
    /\ state = Serving
    /\ watches = Kinds
    /\ \E s \in PageStores :
         /\ store = [k \in Kinds |-> IF k = KindUser THEN s ELSE {}]
         /\ upstream = store
    /\ \E n \in PageSizes, f \in PageFilters :
         pg = [on |-> TRUE, size |-> n, filter |-> f, token |-> <<>>, pages |-> <<>>,
               pc |-> "call"]
    /\ expected = store
    /\ generation = 0
    /\ queue = <<>>
    /\ writer = FALSE
    /\ pending = <<>>
    /\ applyPos = 0
    /\ rd = [r \in Readers |-> Idle]
    /\ faults = 0
    /\ writes = 0
    /\ delivered = <<>>
    /\ fx = FxOff
    /\ rst = RsOff
    /\ sst = SsOff
    /\ fnc = FnOff
    /\ stm = StmOff

\* The next request of the walk: the page size, and the token of the previous
\* response.
PageCall(r) ==
    /\ pg.pc = "call"
    /\ AcquireFor(r, {[Call(ListUsers, "", FALSE) EXCEPT !.token = pg.token,
                                                       !.size = pg.size,
                                                       !.filter = pg.filter]})

\* The response reaches the caller: its users are a page of the walk and its
\* NextPageToken is the token of the next request; an empty token ends the walk.
PageReturn(r) ==
    /\ pg.pc = "call"
    /\ rd[r].pc = "done"
    /\ rd' = [rd EXCEPT ![r] = Idle]
    /\ pg' = [pg EXCEPT !.pages = Append(@, {u.name : u \in rd[r].result}),
                        !.token = rd[r].next,
                        !.pc = IF rd[r].next = <<>> THEN "done" ELSE "call"]
    /\ UNCHANGED <<state, generation, watches, store, upstream, queue, writer,
                   pending, applyPos, faults, writes, expected, delivered, fx, rst, sst,
                   fnc, stm>>

PageNext ==
    \/ \E r \in Readers : PageCall(r)
    \/ \E r \in Readers : ReadStep(r)
    \/ \E r \in Readers : PageReturn(r)

PageSpec == PageInit /\ [][PageNext]_vars

(***************************************************************************)
(* One fetch/apply call of a collection, on any store contents, for any    *)
(* answer of getAll, with the engine's lock and apply steps.               *)
(***************************************************************************)
\* What an upstream's getAll of kind k can answer: a list of values, or an error.
FxAnswers(k) ==
    {Answer(ErrNone, SeqOf(up)) : up \in BackendStates(k)}
    \cup {Answer(ErrNotFound, <<>>), Answer(ErrUnavailable, <<>>)}

FetchInit ==
    /\ \E k \in Kinds, single \in BOOLEAN, ok \in BOOLEAN :
         \E s0 \in StoreStates(k), ans \in FxAnswers(k) :
            /\ watches = {k}
            /\ store = [j \in Kinds |-> IF j = k THEN s0 ELSE {}]
            /\ expected = store
            /\ state = IF ok THEN Snapshotting ELSE Recovering
            /\ fx = [phase |-> "start", c |-> Collection(k, single), cacheOK |-> ok,
                     ans |-> ans, err |-> ErrNone, contacted |-> FALSE, store0 |-> s0,
                     updates |-> {}]
    /\ generation = 0
    /\ upstream = [k \in Kinds |-> {}]
    /\ queue = <<>>
    /\ writer = FALSE
    /\ pending = <<>>
    /\ applyPos = 0
    /\ rd = [r \in Readers |-> Idle]
    /\ faults = 0
    /\ writes = 0
    /\ delivered = <<>>
    /\ rst = RsOff
    /\ sst = SsOff
    /\ fnc = FnOff
    /\ pg = PgOff
    /\ stm = StmOff

FxFetch_ClearsFirst ==
    /\ fx.phase = "start"
    /\ LET out == Fetch(fx.c, fx.cacheOK, fx.ans)
       IN /\ fx' = [fx EXCEPT !.phase = IF out.err # ErrNone THEN "failed" ELSE "fetched",
                              !.err = out.err,
                              !.contacted = CallsUpstream(fx.cacheOK)]
          /\ pending' = IF out.err # ErrNone THEN <<>> ELSE <<out.apply>>
          /\ store' = [store EXCEPT ![fx.c.kind] = StoreClear(@)]
    /\ UNCHANGED <<state, generation, watches, upstream, queue, writer,
                   applyPos, rd, faults, writes, expected, delivered, rst, sst,
                   fnc, pg, stm>>

\* The call of fetch: getAll is called only when CallsUpstream says so.
FxFetch ==
    /\ fx.phase = "start"
    /\ LET out == Fetch(fx.c, fx.cacheOK, fx.ans)
       IN /\ fx' = [fx EXCEPT !.phase = IF out.err # ErrNone THEN "failed" ELSE "fetched",
                              !.err = out.err,
                              !.contacted = CallsUpstream(fx.cacheOK)]
          /\ pending' = IF out.err # ErrNone THEN <<>> ELSE <<out.apply>>
    /\ UNCHANGED <<state, generation, watches, store, upstream, queue, writer,
                   applyPos, rd, faults, writes, expected, delivered, rst, sst,
                   fnc, pg, stm>>

\* The apply function has returned.
FxReturn ==
    /\ fx.phase = "fetched"
    /\ writer
    /\ pending = <<>>
    /\ fx' = [fx EXCEPT !.phase = "done"]
    /\ writer' = FALSE
    /\ UNCHANGED <<state, generation, watches, store, upstream, queue, pending,
                   applyPos, rd, faults, writes, expected, delivered, rst, sst,
                   fnc, pg, stm>>

\* After the install: an event of the kind reaches onUpdate.
FxUpdate ==
    /\ fx.phase \in {"done", "updated"}
    /\ fx.cacheOK
    /\ \E v \in Values(fx.c.kind) :
         /\ store' = [store EXCEPT ![fx.c.kind] = OnUpdate(fx.c.kind, @, Typed(v)).store]
         /\ fx' = [fx EXCEPT !.phase = "updated", !.updates = @ \cup {v}]
    /\ UNCHANGED <<state, generation, watches, upstream, queue, writer, pending,
                   applyPos, rd, faults, writes, expected, delivered, rst, sst,
                   fnc, pg, stm>>

FetchNext ==
    \/ FxFetch
    \/ fx.phase = "fetched" /\ AcquireWriter
    \/ ApplyClearStep
    \/ ApplyPutStep
    \/ FxReturn
    \/ FxUpdate

FetchSpec == FetchInit /\ [][FetchNext]_vars

(***************************************************************************)
(* The engine on a backend whose contents stay as they are, with the       *)
(* engine task and the readers scheduled fairly and the cache left open.   *)
(***************************************************************************)
LiveInit ==
    /\ state = Initializing
    /\ generation = 0
    /\ watches \in WatchConfigs
    /\ store = [k \in Kinds |-> {}]
    /\ upstream \in {[k \in Kinds |-> {}],
                     [k \in Kinds |-> {CHOOSE v \in Values(k) : TRUE}],
                     [k \in Kinds |-> IF k = KindUser THEN {User(n, 1) : n \in UserNames}
                                      ELSE {}]}
    /\ queue = <<>>
    /\ writer = FALSE
    /\ pending = <<>>
    /\ applyPos = 0
    /\ rd = [r \in Readers |-> Idle]
    /\ faults = 0
    /\ writes = 0
    /\ expected = [k \in Kinds |-> {}]
    /\ delivered = <<>>
    /\ fx = FxOff
    /\ rst = RsOff
    /\ sst = SsOff
    /\ fnc = FnOff
    /\ pg = PgOff
    /\ stm = StmOff

\* The steps the engine task takes on its own.
EngineProgress ==
    \/ WatchEstablished
    \/ FetchCollection
    \/ RecoverFetch
    \/ AcquireWriter
    \/ ApplyClearStep
    \/ ApplyPutStep
    \/ Commit
    \/ RecoverDone

ReaderFinish == \E r \in Readers : ReadStep(r) \/ Release(r)

LiveNext ==
    \/ EngineProgress
    \/ SubscribeFail
    \/ WatchError
    \/ \E r \in Readers : Acquire(r)
    \/ ReaderFinish

LiveSpec ==
    /\ LiveInit
    /\ [][LiveNext]_vars
    /\ WF_vars(EngineProgress)
    /\ WF_vars(ReaderFinish)

(***************************************************************************)
(* A resourceStore of integers with two indexes and an optional filter,    *)
(* as built by TestResourceStore, over a SortCache of ordered maps.        *)
(***************************************************************************)
Items == {0, 1, 10, 16, 17, 28}

\* Keys are strings: sequences of character codes, '0'..'9' < 'a'..'f'.
RECURSIVE Itoa(_)
Itoa(i) == IF i < 10 THEN <<i>> ELSE Itoa(i \div 10) \o <<i % 10>>

RECURSIVE FormatHex(_)
FormatHex(i) == IF i < 16 THEN <<i>> ELSE FormatHex(i \div 16) \o <<i % 16>>

IndexNames == {"numbers", "characters"}

\* The index functions a store is built with: those of TestResourceStore, which
\* give every value keys of its own, and functions of t / 2, under which the
\* values 2n and 2n + 1 are two versions of one resource, stored under one key.
TestIndexes == "test"
VersionIndexes == "versions"

Transform(ix, idx, t) ==
    LET n == IF ix = VersionIndexes THEN t \div 2 ELSE t
    IN IF idx = "numbers" THEN Itoa(n) ELSE FormatHex(n)

IsEven(i) == i % 2 = 0

\* SortCache: per index, the bindings key -> value.
EmptyCache == [idx \in IndexNames |-> {}]

Bound(c, idx, key) == {b \in c[idx] : b.key = key}

\* Remove value t from every index.
DeleteValue(c, t) == [idx \in IndexNames |-> {b \in c[idx] : b.val # t}]

RECURSIVE EvictOver(_, _, _, _)
EvictOver(is, c, ix, t) ==
    IF is = {} THEN c
    ELSE LET idx == CHOOSE j \in is : TRUE
             prev == Bound(c, idx, Transform(ix, idx, t))
             c1 == IF prev = {} THEN c
                   ELSE DeleteValue(c, (CHOOSE b \in prev : TRUE).val)
         IN EvictOver(is \ {idx}, c1, ix, t)

\* SortCache.Put: the values bound to any of t's keys go, then t is bound
\* under every index.
ScPut(c, ix, t) ==
    LET c1 == EvictOver(IndexNames, c, ix, t)
    IN [idx \in IndexNames |-> c1[idx] \cup {[key |-> Transform(ix, idx, t), val |-> t]}]

\* SortCache.Delete: the value bound to key under idx leaves every index.
ScDelete(c, idx, key) ==
    LET prev == Bound(c, idx, key)
    IN IF prev = {} THEN c ELSE DeleteValue(c, (CHOOSE b \in prev : TRUE).val)

ScClear(c) == EmptyCache

ScGet(c, idx, key) ==
    LET prev == Bound(c, idx, key)
    IN IF prev = {} THEN [ok |-> FALSE, val |-> 0]
       ELSE [ok |-> TRUE, val |-> (CHOOSE b \in prev : TRUE).val]

RECURSIVE InKeyOrder(_)
InKeyOrder(bs) ==
    IF bs = {} THEN <<>>
    ELSE LET m == CHOOSE b \in bs : \A o \in bs : ~LexLess(o.key, b.key)
         IN <<m.val>> \o InKeyOrder(bs \ {m})

\* SortCache.Ascend: the values with key in [start, stop), by ascending key;
\* an empty stop means no upper end.
ScAscend(c, idx, start, stop) ==
    InKeyOrder({b \in c[idx] : /\ ~LexLess(b.key, start)
                               /\ stop = <<>> \/ LexLess(b.key, stop)})

ResourceStore(filtered, ix, c) == [filtered |-> filtered, indexes |-> ix, cache |-> c]

newResourceStoreWithFilter(filtered, ix) == ResourceStore(filtered, ix, EmptyCache)

RsClear(s) == [s EXCEPT !.cache = ScClear(@)]

RsPut_NoFilter(s, t) == [s EXCEPT !.cache = ScPut(@, s.indexes, t)]

RsPut_Evict(s, t) ==
    IF s.filtered /\ ~IsEven(t)
    THEN [s EXCEPT !.cache = EvictOver(IndexNames, @, s.indexes, t)]
    ELSE [s EXCEPT !.cache = ScPut(@, s.indexes, t)]

RsPut(s, t) ==
    IF s.filtered /\ ~IsEven(t) THEN s ELSE [s EXCEPT !.cache = ScPut(@, s.indexes, t)]

RECURSIVE RsDeleteOver(_, _, _, _)
RsDeleteOver(is, c, ix, t) ==
    IF is = {} THEN c
    ELSE LET idx == CHOOSE j \in is : TRUE
         IN RsDeleteOver(is \ {idx}, ScDelete(c, idx, Transform(ix, idx, t)), ix, t)

RsDelete_OneKey(s, t) ==
    [s EXCEPT !.cache = ScDelete(ScDelete(@, "numbers", Itoa(t)), "characters", Itoa(t))]

RsDelete(s, t) == [s EXCEPT !.cache = RsDeleteOver(IndexNames, @, s.indexes, t)]

\* A formatted message: the format and its arguments.
Sprintf(format, args) == [format |-> format, args |-> args]

NoMessage == Sprintf("", <<>>)

\* reflect.TypeOf((*T)(nil)).Elem() of resourceStore[int].
ElemType == "int"

RsGet_AnyIndex(s, idx, key) ==
    LET r == ScGet(s.cache, "numbers", key)
    IN IF r.ok THEN [err |-> ErrNone, val |-> r.val, msg |-> NoMessage]
       ELSE [err |-> ErrNotFound, val |-> r.val,
             msg |-> Sprintf("no value for resource of type %v", <<ElemType>>)]

\* resourceStore.get: the value, or the zero value and trace.NotFound with its
\* message.
RsGet(s, idx, key) ==
    LET r == ScGet(s.cache, idx, key)
    IN IF r.ok THEN [err |-> ErrNone, val |-> r.val, msg |-> NoMessage]
       ELSE [err |-> ErrNotFound, val |-> r.val,
             msg |-> Sprintf("no value for resource of type %v", <<ElemType>>)]

RsIterate(s, idx, start, stop) == ScAscend(s.cache, idx, start, stop)

StoreInit ==
    /\ state = Initializing
    /\ generation = 0
    /\ watches = {}
    /\ store = [k \in Kinds |-> {}]
    /\ upstream = [k \in Kinds |-> {}]
    /\ queue = <<>>
    /\ writer = FALSE
    /\ pending = <<>>
    /\ applyPos = 0
    /\ rd = [r \in Readers |-> Idle]
    /\ faults = 0
    /\ writes = 0
    /\ expected = [k \in Kinds |-> {}]
    /\ delivered = <<>>
    /\ fx = FxOff
    /\ sst = SsOff
    /\ fnc = FnOff
    /\ pg = PgOff
    /\ stm = StmOff
    /\ \E filtered \in BOOLEAN :
         rst = [on |-> TRUE, s |-> newResourceStoreWithFilter(filtered, TestIndexes),
                have |-> {}, op |-> "", arg |-> 0,
                prev |-> newResourceStoreWithFilter(filtered, TestIndexes)]

Admitted(s, t) == ~s.filtered \/ IsEven(t)

\* The values of h that share no key with t in store s.
OtherKeys(s, h, t) ==
    {u \in h : \A idx \in IndexNames :
                  Transform(s.indexes, idx, u) # Transform(s.indexes, idx, t)}

RsFrame ==
    UNCHANGED <<state, generation, watches, store, upstream, queue, writer, pending,
                applyPos, rd, faults, writes, expected, delivered, fx, sst, fnc, pg, stm>>

\* have: the values the calls so far leave stored, by their meaning; prev: the
\* store the last call found.
RsPutCall ==
    /\ rst.on
    /\ \E t \in Items :
         rst' = [rst EXCEPT !.s = RsPut(@, t),
                          !.have = IF Admitted(rst.s, t)
                                   THEN OtherKeys(rst.s, @, t) \cup {t} ELSE @,
                          !.op = "put", !.arg = t, !.prev = rst.s]
    /\ RsFrame

RsDeleteCall ==
    /\ rst.on
    /\ \E t \in Items :
         rst' = [rst EXCEPT !.s = RsDelete(@, t), !.have = OtherKeys(rst.s, @, t),
                          !.op = "delete", !.arg = t, !.prev = rst.s]
    /\ RsFrame

RsClearCall ==
    /\ rst.on
    /\ rst' = [rst EXCEPT !.s = RsClear(@), !.have = {}, !.op = "clear", !.arg = 0,
                     !.prev = rst.s]
    /\ RsFrame

StoreNext == RsPutCall \/ RsDeleteCall \/ RsClearCall

StoreSpec == StoreInit /\ [][StoreNext]_vars

\* The same store and calls, built with index functions under which two
\* versions of a resource share their keys while the filter tells them apart.
VersionStoreInit ==
    /\ state = Initializing
    /\ generation = 0
    /\ watches = {}
    /\ store = [k \in Kinds |-> {}]
    /\ upstream = [k \in Kinds |-> {}]
    /\ queue = <<>>
    /\ writer = FALSE
    /\ pending = <<>>
    /\ applyPos = 0
    /\ rd = [r \in Readers |-> Idle]
    /\ faults = 0
    /\ writes = 0
    /\ expected = [k \in Kinds |-> {}]
    /\ delivered = <<>>
    /\ fx = FxOff
    /\ sst = SsOff
    /\ fnc = FnOff
    /\ pg = PgOff
    /\ stm = StmOff
    /\ \E filtered \in BOOLEAN :
         rst = [on |-> TRUE, s |-> newResourceStoreWithFilter(filtered, VersionIndexes),
                have |-> {}, op |-> "", arg |-> 0,
                prev |-> newResourceStoreWithFilter(filtered, VersionIndexes)]

VersionStoreSpec == VersionStoreInit /\ [][StoreNext]_vars

(***************************************************************************)
(* A singletonStore called by concurrent callers: the atomic pointer, and  *)
(* put as a load followed by a compare-and-swap.                           *)
(***************************************************************************)
Callers == {"p1", "p2"}

Payloads == {1, 2}

\* The nil pointer; a pointer to a value carries the identity of its allocation.
Nil == [id |-> 0, val |-> 0]

Pointer(n, v) == [id |-> n, val |-> v]

AtomicLoad(t) == t

AtomicCompareAndSwap_Always(t, old, new) == [swapped |-> TRUE, t |-> new]

AtomicCompareAndSwap(t, old, new) ==
    IF t = old THEN [swapped |-> TRUE, t |-> new] ELSE [swapped |-> FALSE, t |-> t]

ErrCompareFailed == "CompareFailed"

SingletonClear_Keep(t) == t

\* singletonStore.clear
SingletonClear(t) == Nil

\* singletonStore.put after its load: the compare-and-swap and the result.
SingletonPutSwap(t, old, new) ==
    LET r == AtomicCompareAndSwap(t, old, new)
    IN [t |-> r.t, err |-> IF r.swapped THEN ErrNone ELSE ErrCompareFailed]

SingletonDelete_Keep(t, x) == t

\* singletonStore.delete
SingletonDelete(t, x) == SingletonClear(t)

\* singletonStore.get
SingletonGet(t) ==
    LET item == AtomicLoad(t)
    IN IF item = Nil THEN [val |-> 0, err |-> ErrNotFound]
       ELSE [val |-> item.val, err |-> ErrNone]

NoValue == 0

\* seen is the number of writes that had taken effect when put loaded.
\* carrier is the carrier of an event given to onUpdate; puterr is what put
\* returned and mine the allocation of the pointer it tried to install.
CallerIdle == [pc |-> "idle", op |-> "", arg |-> 0, carrier |-> "", old |-> Nil,
               val |-> 0, err |-> ErrNone, puterr |-> ErrNone, mine |-> 0,
               eff |-> NoValue, seen |-> 0]

OnUpdateReturn_Wrap(typed, putErr) == IF typed THEN putErr ELSE ErrBadParameter

\* What onUpdate returns: nil after c.store.put, whatever put returned, and
\* BadParameter for a carrier that is not a T.
OnUpdateReturn(typed, putErr) == IF typed THEN ErrNone ELSE ErrBadParameter

\* The carriers of the events of the singleton's handler.
SsCarriers == {"typed", "header"}

\* The callers that reach store.put: put itself, and onUpdate with a T.
SsPuts(me) == me.op = "put" \/ (me.op = "onUpdate" /\ me.carrier = "typed")

SingletonInit ==
    /\ state = Initializing
    /\ generation = 0
    /\ watches = {}
    /\ store = [k \in Kinds |-> {}]
    /\ upstream = [k \in Kinds |-> {}]
    /\ queue = <<>>
    /\ writer = FALSE
    /\ pending = <<>>
    /\ applyPos = 0
    /\ rd = [r \in Readers |-> Idle]
    /\ faults = 0
    /\ writes = 0
    /\ expected = [k \in Kinds |-> {}]
    /\ delivered = <<>>
    /\ fx = FxOff
    /\ rst = RsOff
    /\ sst = [on |-> TRUE, t |-> Nil, allocs |-> 0, calls |-> 0, eff |-> NoValue,
              wr |-> 0, started |-> {}, c |-> [p \in Callers |-> CallerIdle]]
    /\ fnc = FnOff
    /\ pg = PgOff
    /\ stm = StmOff

SsFrame ==
    UNCHANGED <<state, generation, watches, store, upstream, queue, writer, pending,
                applyPos, rd, faults, writes, expected, delivered, fx, rst, fnc, pg, stm>>

SsOps == {"put", "get", "clear", "delete", "onUpdate"}

\* A caller enters one of the four methods, or the collection's onUpdate.
SsCall(p) ==
    /\ sst.on
    /\ sst.c[p].pc = "idle"
    /\ sst.calls < MaxCalls
    /\ \E op \in SsOps, x \in Payloads, r \in SsCarriers :
         sst' = [sst EXCEPT !.c[p] = [CallerIdle EXCEPT
                                         !.pc = "called", !.op = op,
                                         !.carrier = IF op = "onUpdate" THEN r ELSE "",
                                         !.arg = IF \/ op \in {"put", "delete"}
                                                    \/ op = "onUpdate" /\ r = "typed"
                                                 THEN x ELSE 0],
                            !.calls = @ + 1,
                            !.started = @ \cup {p}]
    /\ SsFrame

\* put: old := s.t.Load()
SsPutLoad(p) ==
    /\ sst.on
    /\ sst.c[p].pc = "called"
    /\ SsPuts(sst.c[p])
    /\ sst' = [sst EXCEPT !.c[p].pc = "loaded", !.c[p].old = AtomicLoad(sst.t),
                          !.c[p].seen = sst.wr]
    /\ SsFrame

\* put: s.t.CompareAndSwap(old, &t); eff follows the puts that took effect.
\* A put called by onUpdate returns to it, and onUpdate returns.
SsPutSwap(p) ==
    /\ sst.on
    /\ sst.c[p].pc = "loaded"
    /\ LET r == SingletonPutSwap(sst.t, sst.c[p].old, Pointer(sst.allocs + 1, sst.c[p].arg))
       IN sst' = [sst EXCEPT !.t = r.t,
                             !.allocs = @ + 1,
                             !.eff = IF r.err = ErrNone THEN sst.c[p].arg ELSE @,
                             !.wr = IF r.err = ErrNone THEN @ + 1 ELSE @,
                             !.c[p].pc = "done",
                             !.c[p].puterr = r.err,
                             !.c[p].mine = sst.allocs + 1,
                             !.c[p].err = IF sst.c[p].op = "onUpdate"
                                          THEN OnUpdateReturn(TRUE, r.err) ELSE r.err]
    /\ SsFrame

\* onUpdate with a carrier that is not a T: BadParameter, no call of the store.
SsOnUpdateReject(p) ==
    /\ sst.on
    /\ sst.c[p].pc = "called"
    /\ sst.c[p].op = "onUpdate"
    /\ sst.c[p].carrier # "typed"
    /\ sst' = [sst EXCEPT !.c[p].pc = "done",
                          !.c[p].err = OnUpdateReturn(FALSE, ErrNone)]
    /\ SsFrame

SsClearCall(p) ==
    /\ sst.on
    /\ sst.c[p].pc = "called"
    /\ sst.c[p].op \in {"clear", "delete"}
    /\ sst' = [sst EXCEPT !.t = IF sst.c[p].op = "clear" THEN SingletonClear(@)
                                ELSE SingletonDelete(@, sst.c[p].arg),
                          !.eff = NoValue,
                          !.wr = @ + 1,
                          !.c[p].pc = "done"]
    /\ SsFrame

\* get; eff at this moment is kept with the result.
SsGetCall(p) ==
    /\ sst.on
    /\ sst.c[p].pc = "called"
    /\ sst.c[p].op = "get"
    /\ LET r == SingletonGet(sst.t)
       IN sst' = [sst EXCEPT !.c[p].pc = "done", !.c[p].val = r.val, !.c[p].err = r.err,
                             !.c[p].eff = sst.eff]
    /\ SsFrame

SsReturn(p) ==
    /\ sst.on
    /\ sst.c[p].pc = "done"
    /\ sst' = [sst EXCEPT !.c[p] = CallerIdle]
    /\ SsFrame

SingletonNext ==
    \E p \in Callers :
        \/ SsCall(p)
        \/ SsPutLoad(p)
        \/ SsPutSwap(p)
        \/ SsOnUpdateReject(p)
        \/ SsClearCall(p)
        \/ SsGetCall(p)
        \/ SsReturn(p)

SingletonSpec == SingletonInit /\ [][SingletonNext]_vars

(***************************************************************************)
(* The FnCache (TTL memoization with single flight, one instance per       *)
(* generation) and the cert-authority reads of concurrent callers.         *)
(***************************************************************************)
\* Entries expire this long after the load that created them has completed.
TTL == 1

\* The reads of the callers: one cert authority by id, and the list of a type.
FnCalls ==
    {Call(GetCertAuthority, "user/root", x) : x \in BOOLEAN}
    \cup {Call(GetCertAuthorities, "user", FALSE)}

\* getCertAuthorityCacheKey{id} and getCertAuthoritiesCacheKey{caType}.
FnKey(call) == [op |-> call.op, arg |-> call.arg]

FnKeys == {FnKey(call) : call \in FnCalls}

Instances == 0 .. MaxGen

FnInstance_Shared(g) == 0

\* The FnCache a get issued in generation g uses: the pointer is swapped at
\* every generation change.
FnInstance(g) == g

UsesFnCache_Never(rg, secrets) == FALSE

\* The upstream read goes through FnCacheGet: the guard is not ReadCache and
\* no signing keys are requested.
UsesFnCache(rg, secrets) == ~ServedFromStore(rg) /\ ~secrets

\* What a loader or a direct upstream read returned, and the generation in
\* which it read it.
FnValue(res, g) == [res |-> res, gen |-> g]

FnNone == [res |-> {}, gen |-> 0]

FnNoEntry == [has |-> FALSE, val |-> FnNone, exp |-> 0]

FnNoFlight == [busy |-> FALSE, val |-> FnNone, err |-> ErrNone]

\* A caller: its read, its guard, the generation in which it called, what it
\* received and how, and when it read the upstream (called: it did).
FnIdle == [pc |-> "idle", call |-> Call("", "", FALSE), guard |-> "", gen |-> 0,
           val |-> FnNone, err |-> ErrNone, via |-> "", called |-> FALSE, t |-> 0]

\* A non-expired entry.
FnValid(e, now) == e.has /\ now < e.exp

JoinsFlight_Never(f) == FALSE

\* Another caller is loading the key: wait for its result.
JoinsFlight(f) == f.busy

StoresResult_Always(err) == TRUE

\* A loader's result becomes an entry only when the loader succeeded.
StoresResult(err) == err = ErrNone

\* The cert authority the callers read; a value read from the upstream is
\* told apart by the generation it was read in.
FnCAs == {CertAuthority("user", "root", 1)}

FnBackendStates == {{}} \cup {{v} : v \in FnCAs}

FnInit ==
    /\ \E op \in {GetCertAuthority, GetCertAuthorities} :
         fnc = [on |-> TRUE, now |-> 0,
              calls |-> {call \in FnCalls : call.op = op},
              entry |-> [i \in Instances |-> [k \in FnKeys |-> FnNoEntry]],
              flight |-> [i \in Instances |-> [k \in FnKeys |-> FnNoFlight]],
              c |-> [p \in Callers |-> FnIdle]]
    /\ state = Initializing
    /\ generation = 0
    /\ watches = Kinds
    /\ store = [k \in Kinds |-> {}]
    /\ \E up \in FnBackendStates :
         upstream = [k \in Kinds |-> IF k = KindCertAuthority THEN up ELSE {}]
    /\ expected = store
    /\ queue = <<>>
    /\ writer = FALSE
    /\ pending = <<>>
    /\ applyPos = 0
    /\ rd = [r \in Readers |-> Idle]
    /\ faults = 0
    /\ writes = 0
    /\ delivered = <<>>
    /\ fx = FxOff
    /\ rst = RsOff
    /\ sst = SsOff
    /\ pg = PgOff
    /\ stm = StmOff

\* What the Fn actions leave alone besides the engine's state, generation,
\* store and upstream.
FnFrame ==
    UNCHANGED <<watches, queue, writer, pending, applyPos, rd, faults, writes,
                expected, delivered, fx, rst, sst, pg, stm>>

FnEngineFrame == UNCHANGED <<state, generation, store, upstream>>

\* A caller holds a ReadCache guard.
FnGuardHeld == \E p \in Callers : fnc.c[p].pc # "idle" /\ fnc.c[p].guard = ReadCache

\* The FnCache instance of caller p's read.
FnOf(p) == FnInstance(fnc.c[p].gen)

\* An FnCache that is neither the one of generation g nor referenced by a
\* caller of f is unreachable: its entries are gone with it.
FnCollect(f, g) ==
    [f EXCEPT !.entry =
        [i \in Instances |->
            IF i = FnInstance(g)
               \/ \E p \in Callers : f.c[p].pc # "idle" /\ FnInstance(f.c[p].gen) = i
            THEN @[i]
            ELSE [k \in FnKeys |-> FnNoEntry]]]

\* The engine completes a re-initialization: the snapshot is installed, the
\* generation advances and with it the FnCache instance, the state is Serving.
FnReinit ==
    /\ state # Serving
    /\ generation < MaxGen
    /\ state' = Serving
    /\ generation' = NextGeneration(generation, Snapshotting)
    /\ store' = [store EXCEPT ![KindCertAuthority] =
                    {v \in upstream[KindCertAuthority] : Filter(KindCertAuthority, v)}]
    /\ fnc' = FnCollect(fnc, generation')
    /\ UNCHANGED upstream
    /\ FnFrame

\* A watch error: the stores are cleared once no ReadCache guard is held, and
\* readers fall through to the upstream.
FnWatchError ==
    /\ state = Serving
    /\ ~FnGuardHeld
    /\ state' = Initializing
    /\ store' = [store EXCEPT ![KindCertAuthority] = {}]
    /\ UNCHANGED <<generation, upstream, fnc>>
    /\ FnFrame

\* The backend changes; the event has not reached the store.
FnBackendWrite ==
    /\ \E up \in FnBackendStates \ {upstream[KindCertAuthority]} :
         upstream' = [upstream EXCEPT ![KindCertAuthority] = up]
    /\ UNCHANGED <<state, generation, store, fnc>>
    /\ FnFrame

\* Time passes, observed while an entry or a caller's read exists; an entry
\* that expires is never returned again and is dropped.
FnTick ==
    /\ fnc.now < MaxTime
    /\ \/ \E i \in Instances, k \in FnKeys : fnc.entry[i][k].has
       \/ \E p \in Callers : fnc.c[p].pc # "idle"
    /\ fnc' = [fnc EXCEPT !.now = @ + 1,
                          !.entry = [i \in Instances |-> [k \in FnKeys |->
                                       IF FnValid(@[i][k], fnc.now + 1) THEN @[i][k]
                                       ELSE FnNoEntry]]]
    /\ FnEngineFrame
    /\ FnFrame

\* The key of caller p's read.
KeyOfCaller(p) == FnKey(fnc.c[p].call)

\* FnCacheGet under the FnCache's mutex, for a caller about to be cur, in
\* instance i: a non-expired entry, else the flight in progress, else a new
\* flight led by this caller.
FnGet(p, cur, i) ==
    LET k == FnKey(cur.call)
        e == fnc.entry[i][k]
    IN IF FnValid(e, fnc.now)
       THEN [fnc EXCEPT !.c[p] = [cur EXCEPT !.pc = "done", !.via = "entry",
                                             !.val = e.val]]
       ELSE IF JoinsFlight(fnc.flight[i][k])
       THEN [fnc EXCEPT !.c[p] = [cur EXCEPT !.pc = "waiting"]]
       ELSE [fnc EXCEPT !.c[p] = [cur EXCEPT !.pc = "loading"],
                        !.flight[i][k].busy = TRUE]

\* An upstream read that is not wrapped in the FnCache: the fallback after a
\* store miss (fallback), and the read with signing keys.
FnUpstreamCall(p, cur, fallback, fail) ==
    LET u == UpstreamRead([cur.call EXCEPT !.fail = fail], upstream[KindCertAuthority])
        err == IF ~fallback \/ u.err = ErrNone THEN u.err
               ELSE FallbackError(ErrNotFound, u.err)
    IN [fnc EXCEPT !.c[p] = [cur EXCEPT !.pc = "done", !.via = "upstream",
                                        !.err = err, !.called = TRUE, !.t = fnc.now,
                                        !.val = FnValue(u.result, generation)]]

\* A caller's GetCertAuthority or GetCertAuthorities up to its return or to
\* the point where it waits in the FnCache: the read guard, then the store
\* branch, the FnCache or the direct upstream read.
FnCall(p) ==
    /\ fnc.c[p].pc = "idle"
    /\ \E call \in fnc.calls, fail \in BOOLEAN :
         LET rg == AcquireReadGuard(KindCertAuthority)
             s == store[KindCertAuthority]
             miss == /\ call.op = GetCertAuthority
                     /\ FallsBack(Lookup(call.secrets, s, "id", call.arg).err)
             cur == [FnIdle EXCEPT !.call = call, !.guard = rg, !.gen = generation]
         IN fnc' = IF ServedFromStore(rg)
                   THEN IF miss THEN FnUpstreamCall(p, cur, TRUE, fail)
                        ELSE [fnc EXCEPT !.c[p] =
                                [cur EXCEPT !.pc = "done", !.via = "store",
                                            !.val = FnValue(StoreRead(call, s, {}).result,
                                                            generation)]]
                   ELSE IF UsesFnCache(rg, call.secrets)
                        THEN FnGet(p, cur, FnInstance(generation))
                        ELSE FnUpstreamCall(p, cur, FALSE, fail)
    /\ FnEngineFrame
    /\ FnFrame

\* The loader: the upstream read of the flight's leader.
FnLoaderRun(p) ==
    /\ fnc.c[p].pc = "loading"
    /\ \E fail \in BOOLEAN :
         LET i == FnOf(p)
             k == KeyOfCaller(p)
             u == UpstreamRead([fnc.c[p].call EXCEPT !.fail = fail],
                               upstream[KindCertAuthority])
         IN fnc' = [fnc EXCEPT !.c[p].pc = "loaded", !.c[p].called = TRUE,
                               !.c[p].t = fnc.now,
                               !.flight[i][k].val = FnValue(u.result, generation),
                               !.flight[i][k].err = u.err]
    /\ FnEngineFrame
    /\ FnFrame

\* The callers waiting for the flight of p.
FnWaiters(p) ==
    {q \in Callers : /\ fnc.c[q].pc = "waiting"
                     /\ FnOf(q) = FnOf(p)
                     /\ KeyOfCaller(q) = KeyOfCaller(p)}

\* The loader has returned: the entry is stored, the leader and the waiting
\* callers receive the result.
FnLoaderDone(p) ==
    /\ fnc.c[p].pc = "loaded"
    /\ LET i == FnOf(p)
           k == KeyOfCaller(p)
           f == fnc.flight[i][k]
           got(q) == [fnc.c[q] EXCEPT !.pc = "done", !.val = f.val, !.err = f.err,
                                      !.via = IF q = p THEN "loader" ELSE "flight"]
       IN fnc' = [fnc EXCEPT
                    !.entry[i][k] = IF StoresResult(f.err)
                                    THEN [has |-> TRUE, val |-> f.val,
                                          exp |-> fnc.now + TTL]
                                    ELSE @,
                    !.flight[i][k] = FnNoFlight,
                    !.c = [q \in Callers |->
                             IF q = p \/ q \in FnWaiters(p) THEN got(q) ELSE @[q]]]
    /\ FnEngineFrame
    /\ FnFrame

\* The read returns to its caller; the guard is released.
FnReturn(p) ==
    /\ fnc.c[p].pc = "done"
    /\ fnc' = FnCollect([fnc EXCEPT !.c[p] = FnIdle], generation)
    /\ FnEngineFrame
    /\ FnFrame

FnNext ==
    \/ FnReinit
    \/ FnWatchError
    \/ FnBackendWrite
    \/ FnTick
    \/ \E p \in Callers : FnCall(p)
    \/ \E p \in Callers : FnLoaderRun(p)
    \/ \E p \in Callers : FnLoaderDone(p)
    \/ \E p \in Callers : FnReturn(p)

FnSpec == FnInit /\ [][FnNext]_vars


(***************************************************************************)
(* lib/itertools/stream: a Stream yields pairs (item, error).  A stream is *)
(* the sequence of the pairs it yields when it is consumed to its end; a   *)
(* combinator is the loop of its closure over the input, and its result is *)
(* what it yielded to a consumer that stops after `want` pairs, with the   *)
(* number of pairs it took from each input.                                *)
(***************************************************************************)
StreamValues == {1, 2}

\* yield(item, nil)
Value(x) == [v |-> x, err |-> FALSE]

\* yield(zero, trace.Wrap(err))
Failed == [v |-> 0, err |-> TRUE]

StreamsOver(E) == UNION {[1 .. n -> E] : n \in 0 .. MaxLen}

\* Any input: a stream that keeps its contract ends with its error, but the
\* combinators do not rely on it.
Streams == StreamsOver({Value(x) : x \in StreamValues} \cup {Failed})

\* The consumer breaks out of its loop at the want-th pair; NoLimit is above
\* the length of every output.
NoLimit == 2 * MaxLen + 2

Wants == {1, 2, NoLimit}

Done(out, used) == [out |-> out, used |-> used]

IsError_Never(pair) == FALSE

\* err != nil: the pair ends the combinator's loop.
IsError(pair) == pair.err

\* The mapping functions of FilterMap and MapWhile: 2 is rejected.
Fn(x) == [val |-> x + 10, ok |-> x # 2]

RECURSIVE FilterMapFrom(_, _, _, _)
FilterMapFrom(s, i, out, want) ==
    IF i > Len(s) THEN Done(out, <<Len(s)>>)
    ELSE IF IsError(s[i]) THEN Done(Append(out, Failed), <<i>>)
    ELSE LET mapped == Fn(s[i].v)
         IN IF ~mapped.ok THEN FilterMapFrom(s, i + 1, out, want)
            ELSE IF Len(out) + 1 >= want
            THEN Done(Append(out, Value(mapped.val)), <<i>>)
            ELSE FilterMapFrom(s, i + 1, Append(out, Value(mapped.val)), want)

FilterMap(s, want) == FilterMapFrom(s, 1, <<>>, want)

RECURSIVE MapWhileFrom(_, _, _, _)
MapWhileFrom(s, i, out, want) ==
    IF i > Len(s) THEN Done(out, <<Len(s)>>)
    ELSE IF IsError(s[i]) THEN Done(Append(out, Failed), <<i>>)
    ELSE LET mapped == Fn(s[i].v)
         IN IF ~mapped.ok THEN Done(out, <<i>>)
            ELSE IF Len(out) + 1 >= want
            THEN Done(Append(out, Value(mapped.val)), <<i>>)
            ELSE MapWhileFrom(s, i + 1, Append(out, Value(mapped.val)), want)

MapWhile(s, want) == MapWhileFrom(s, 1, <<>>, want)

RECURSIVE SkipFrom(_, _, _, _, _)
SkipFrom(s, i, n, out, want) ==
    IF i > Len(s) THEN Done(out, <<Len(s)>>)
    ELSE IF IsError(s[i]) THEN Done(Append(out, Failed), <<i>>)
    ELSE IF n > 0 THEN SkipFrom(s, i + 1, n - 1, out, want)
    ELSE IF Len(out) + 1 >= want THEN Done(Append(out, s[i]), <<i>>)
    ELSE SkipFrom(s, i + 1, n, Append(out, s[i]), want)

Skip(s, n, want) == SkipFrom(s, 1, n, <<>>, want)

\* Chain over streams ss: stream j is at pair i; used[j] pairs were taken from
\* stream j.
RECURSIVE ChainFrom(_, _, _, _, _, _)
ChainFrom(ss, j, i, out, used, want) ==
    IF j > Len(ss) THEN Done(out, used)
    ELSE IF i > Len(ss[j]) THEN ChainFrom(ss, j + 1, 1, out, used, want)
    ELSE IF IsError(ss[j][i]) THEN Done(Append(out, Failed), [used EXCEPT ![j] = i])
    ELSE IF Len(out) + 1 >= want
    THEN Done(Append(out, ss[j][i]), [used EXCEPT ![j] = i])
    ELSE ChainFrom(ss, j, i + 1, Append(out, ss[j][i]), [used EXCEPT ![j] = i], want)

Chain(ss, want) == ChainFrom(ss, 1, 1, <<>>, [j \in 1 .. Len(ss) |-> 0], want)

\* A pair of a stream of streams: an inner stream, or the outer error.
FailedStream == [v |-> <<>>, err |-> TRUE]

\* Flatten over the stream of streams s: used[1] pairs were taken from s and
\* used[j + 1] pairs from its j-th inner stream.
RECURSIVE FlattenFrom(_, _, _, _, _, _)
FlattenFrom(s, j, i, out, used, want) ==
    IF j > Len(s) THEN Done(out, used)
    ELSE IF IsError(s[j]) THEN Done(Append(out, Failed), [used EXCEPT ![1] = j])
    ELSE IF i > Len(s[j].v)
    THEN FlattenFrom(s, j + 1, 1, out, [used EXCEPT ![1] = j], want)
    ELSE IF IsError(s[j].v[i])
    THEN Done(Append(out, Failed), [used EXCEPT ![1] = j, ![j + 1] = i])
    ELSE IF Len(out) + 1 >= want
    THEN Done(Append(out, s[j].v[i]), [used EXCEPT ![1] = j, ![j + 1] = i])
    ELSE FlattenFrom(s, j, i + 1, Append(out, s[j].v[i]),
                     [used EXCEPT ![1] = j, ![j + 1] = i], want)

Flatten(s, want) == FlattenFrom(s, 1, 1, <<>>, [j \in 1 .. Len(s) + 1 |-> 0], want)

\* Empty: yields nothing and reads nothing.
Empty == Done(<<>>, <<0>>)

\* yield(nil, trace.Wrap(err)) of Chunks.
FailedChunk == [v |-> <<>>, err |-> TRUE]

ChunkFull_Never(chunk, size) == FALSE

\* len(chunk) == size
ChunkFull(chunk, size) == Len(chunk) = size

RECURSIVE ChunksFrom(_, _, _, _, _, _)
ChunksFrom(s, i, size, chunk, out, want) ==
    IF i > Len(s)
    THEN IF Len(chunk) > 0 THEN Done(Append(out, Value(chunk)), <<Len(s)>>)
         ELSE Done(out, <<Len(s)>>)
    ELSE IF IsError(s[i]) THEN Done(Append(out, FailedChunk), <<i>>)
    ELSE LET c == Append(chunk, s[i].v)
         IN IF ~ChunkFull(c, size) THEN ChunksFrom(s, i + 1, size, c, out, want)
            ELSE IF Len(out) + 1 >= want THEN Done(Append(out, Value(c)), <<i>>)
            ELSE ChunksFrom(s, i + 1, size, <<>>, Append(out, Value(c)), want)

Chunks(s, size, want) ==
    IF size < 1 THEN Empty ELSE ChunksFrom(s, 1, size, <<>>, <<>>, want)

\* The wait function of RateLimit: nil, and at its at-th call res (nil, io.EOF
\* or another error).
WaitPlans == [at : 1 .. MaxLen, res : {"nil", "EOF", "error"}]

Wait(plan, n) == IF n = plan.at THEN plan.res ELSE "nil"

RECURSIVE RateLimitFrom(_, _, _, _, _)
RateLimitFrom(s, i, plan, out, want) ==
    IF i > Len(s) THEN Done(out, <<Len(s)>>)
    ELSE IF IsError(s[i]) THEN Done(Append(out, Failed), <<i>>)
    ELSE IF Len(out) + 1 >= want THEN Done(Append(out, s[i]), <<i>>)
    ELSE IF Wait(plan, i) = "nil"
    THEN RateLimitFrom(s, i + 1, plan, Append(out, s[i]), want)
    ELSE IF Wait(plan, i) = "EOF" THEN Done(Append(out, s[i]), <<i>>)
    ELSE Done(Append(Append(out, s[i]), Failed), <<i>>)

RateLimit(s, plan, want) == RateLimitFrom(s, 1, plan, <<>>, want)

Less(x, y) == x < y

TakesA_Always(okA, okB, x, y) == okA

\* The switch of MergeStreams: the item of A is yielded when B is exhausted or
\* when less(itemA, itemB).
TakesA(okA, okB, x, y) == okA /\ (~okB \/ Less(x, y))

\* MergeStreams with itemA = a[ia] and itemB = b[ib] pulled (okA: ia is within
\* a); the pairs pulled are never errors, a pulled error ends the merge.
RECURSIVE MergeFrom(_, _, _, _, _, _)
MergeFrom(a, b, ia, ib, out, want) ==
    LET okA == ia <= Len(a)
        okB == ib <= Len(b)
        pulled(na, nb) == <<IF na <= Len(a) THEN na ELSE Len(a),
                            IF nb <= Len(b) THEN nb ELSE Len(b)>>
    IN IF ~okA /\ ~okB THEN Done(out, pulled(ia, ib))
       ELSE LET takeA == TakesA(okA, okB, IF okA THEN a[ia].v ELSE 0,
                                           IF okB THEN b[ib].v ELSE 0)
                yielded == Append(out, IF takeA THEN a[ia] ELSE b[ib])
                na == IF takeA THEN ia + 1 ELSE ia
                nb == IF takeA THEN ib ELSE ib + 1
                next == IF takeA THEN (IF na <= Len(a) THEN a[na] ELSE Value(0))
                        ELSE (IF nb <= Len(b) THEN b[nb] ELSE Value(0))
            IN IF Len(yielded) >= want THEN Done(yielded, pulled(ia, ib))
               ELSE IF IsError(next) THEN Done(Append(yielded, Failed), pulled(na, nb))
               ELSE MergeFrom(a, b, na, nb, yielded, want)

MergeStreams(a, b, want) ==
    IF Len(a) >= 1 /\ IsError(a[1]) THEN Done(<<Failed>>, <<1, 0>>)
    ELSE IF Len(b) >= 1 /\ IsError(b[1])
    THEN Done(<<Failed>>, <<IF Len(a) >= 1 THEN 1 ELSE 0, 1>>)
    ELSE MergeFrom(a, b, 1, 1, <<>>, want)

\* The inner streams and the streams of streams given to Flatten.
InnerStreams == {t \in Streams : Len(t) <= 2}

StreamsOfStreams ==
    UNION {[1 .. n -> {Value(t) : t \in InnerStreams} \cup {FailedStream}] : n \in 0 .. 2}

\* The sizes given to Chunks and the counts given to Skip.
Sizes == 0 .. MaxLen

StreamInit ==
    /\ stm = [on |-> TRUE, op |-> "", a |-> <<>>, b |-> <<>>, n |-> 0,
              plan |-> [at |-> 1, res |-> "nil"], want |-> NoLimit, res |-> Empty]
    /\ state = Initializing
    /\ generation = 0
    /\ watches = {}
    /\ store = [k \in Kinds |-> {}]
    /\ upstream = [k \in Kinds |-> {}]
    /\ queue = <<>>
    /\ writer = FALSE
    /\ pending = <<>>
    /\ applyPos = 0
    /\ rd = [r \in Readers |-> Idle]
    /\ faults = 0
    /\ writes = 0
    /\ expected = [k \in Kinds |-> {}]
    /\ delivered = <<>>
    /\ fx = FxOff
    /\ rst = RsOff
    /\ sst = SsOff
    /\ fnc = FnOff
    /\ pg = PgOff

StreamFrame ==
    UNCHANGED <<state, generation, watches, store, upstream, queue, writer, pending,
                applyPos, rd, faults, writes, expected, delivered, fx, rst, sst, fnc, pg>>

\* A combinator built over its inputs and consumed: what it was given and
\* what it did.
Consumed(op, a, b, n, plan, want, res) ==
    [on |-> TRUE, op |-> op, a |-> a, b |-> b, n |-> n, plan |-> plan,
     want |-> want, res |-> res]

ConsumeChain ==
    /\ stm.op = ""
    /\ \E a \in Streams, b \in Streams, want \in Wants :
         stm' = Consumed("Chain", a, b, 0, stm.plan, want, Chain(<<a, b>>, want))
    /\ StreamFrame

ConsumeFilterMap ==
    /\ stm.op = ""
    /\ \E a \in Streams, want \in Wants :
         stm' = Consumed("FilterMap", a, <<>>, 0, stm.plan, want, FilterMap(a, want))
    /\ StreamFrame

ConsumeMapWhile ==
    /\ stm.op = ""
    /\ \E a \in Streams, want \in Wants :
         stm' = Consumed("MapWhile", a, <<>>, 0, stm.plan, want, MapWhile(a, want))
    /\ StreamFrame

ConsumeSkip ==
    /\ stm.op = ""
    /\ \E a \in Streams, n \in Sizes, want \in Wants :
         stm' = Consumed("Skip", a, <<>>, n, stm.plan, want, Skip(a, n, want))
    /\ StreamFrame

ConsumeFlatten ==
    /\ stm.op = ""
    /\ \E a \in StreamsOfStreams, want \in Wants :
         stm' = Consumed("Flatten", a, <<>>, 0, stm.plan, want, Flatten(a, want))
    /\ StreamFrame

ConsumeChunks ==
    /\ stm.op = ""
    /\ \E a \in Streams, n \in Sizes, want \in Wants :
         stm' = Consumed("Chunks", a, <<>>, n, stm.plan, want, Chunks(a, n, want))
    /\ StreamFrame

ConsumeRateLimit ==
    /\ stm.op = ""
    /\ \E a \in Streams, plan \in WaitPlans, want \in Wants :
         stm' = Consumed("RateLimit", a, <<>>, 0, plan, want, RateLimit(a, plan, want))
    /\ StreamFrame

ConsumeMergeStreams ==
    /\ stm.op = ""
    /\ \E a \in Streams, b \in Streams, want \in Wants :
         stm' = Consumed("MergeStreams", a, b, 0, stm.plan, want, MergeStreams(a, b, want))
    /\ StreamFrame

StreamNext ==
    \/ ConsumeChain
    \/ ConsumeFilterMap
    \/ ConsumeMapWhile
    \/ ConsumeSkip
    \/ ConsumeFlatten
    \/ ConsumeChunks
    \/ ConsumeRateLimit
    \/ ConsumeMergeStreams

StreamSpec == StreamInit /\ [][StreamNext]_vars



(***************************************************************************)
(* Properties.                                                             *)
(***************************************************************************)
NotServing == {Recovering, Initializing, Snapshotting}

Acquires(r) == rd[r].pc = "idle" /\ rd'[r].pc = "guarded"

Reads(r) == rd[r].pc = "guarded" /\ rd'[r].pc = "done"

\* C1: a read answered from the store while the engine reinitialises returns
\* the contents the last completed install or event called for (V_old) or the
\* ones the running install calls for (V_new), never a cleared or partly
\* filled store.
ReadWhileReinitSafe ==
    [][\A r \in Readers :
          (Reads(r) /\ rd'[r].src = "store")
              => rd'[r].result = View(rd[r].op, rd[r].arg, expected[OpKind(rd[r].op)])]_vars

\* A reader holding a cache guard has read the store while the engine, already
\* in Recovering with its applies built, waits for the lock.
ReadWhileReinitSafe_Witness ==
    \E r \in Readers :
        /\ rd[r].pc = "done"
        /\ rd[r].src = "store"
        /\ rd[r].result # {}
        /\ state = Recovering
        /\ ~writer
        /\ Len(pending) = Len(Collections)

\* C2: a read gets the cache guard exactly when, at acquire time, the engine
\* is Serving and watches the kind; it is answered from the store exactly when
\* it holds the cache guard, and otherwise by the upstream.
ReadGuardDecision ==
    [][\A r \in Readers :
          /\ Acquires(r)
                => (rd'[r].guard = ReadCache
                        <=> (state = Serving /\ OpKind(rd'[r].op) \in watches))
          /\ Reads(r)
                => IF rd[r].guard = ReadCache
                   THEN rd'[r].src = "store"
                   ELSE /\ rd'[r].src = "upstream"
                        /\ rd'[r].result
                              = UpstreamView(rd[r].op, rd[r].arg, upstream[OpKind(rd[r].op)])]_vars

\* In Serving, a read of a kind the cache does not watch was answered by the
\* upstream.
ReadGuardDecision_Witness ==
    \E r \in Readers :
        /\ rd[r].pc = "done"
        /\ rd[r].src = "upstream"
        /\ rd[r].result # {}
        /\ state = Serving
        /\ OpKind(rd[r].op) \notin watches

\* C3: the generation grows by exactly one on the step that completes a
\* reinit (Snapshotting to Serving) and is unchanged by every other step.
GenerationMonotonic ==
    [][IF state = Snapshotting /\ state' = Serving
       THEN generation' = generation + 1
       ELSE generation' = generation]_vars

\* A second reinit has completed.
GenerationMonotonic_Witness == state = Serving /\ generation = 2 /\ faults > 0

\* C4 as stated: recovery leaves every store empty before Initializing, reads
\* acquired before the next Serving get the upstream guard, and no read is
\* answered with values of the store between the error and the next Serving.
RecoveryClearsNoStaleRead ==
    [][/\ state' = Initializing => \A k \in Kinds : store'[k] = {}
       /\ \A r \in Readers :
            /\ (Acquires(r) /\ state \in NotServing) => rd'[r].guard = ReadUpstream
            /\ (Reads(r) /\ state \in NotServing /\ rd'[r].src = "store")
                  => rd'[r].result = {}]_vars

\* C4: recovery leaves every store empty before Initializing, and a read that
\* acquires its guard between the error and the next Serving gets the upstream
\* guard and is answered by the upstream. (A read that took the cache guard
\* before the error may still read the store until it releases the guard.)
RecoveryClears ==
    [][/\ state' = Initializing => \A k \in Kinds : store'[k] = {}
       /\ \A r \in Readers :
            /\ (Acquires(r) /\ state \in NotServing) => rd'[r].guard = ReadUpstream
            /\ (Reads(r) /\ rd[r].guard = ReadUpstream)
                  => /\ rd'[r].src = "upstream"
                     /\ rd'[r].result
                           = UpstreamView(rd[r].op, rd[r].arg, upstream[OpKind(rd[r].op)])]_vars

\* After a served generation, recovery has run every apply and holds the lock,
\* every store is empty, and a read of a watched kind acquired since the error
\* was answered by the upstream, which still has values.
RecoveryClears_Witness ==
    /\ state = Recovering
    /\ writer
    /\ pending = <<>>
    /\ generation >= 1
    /\ \A k \in Kinds : store[k] = {}
    /\ \E r \in Readers :
        /\ rd[r].pc = "done"
        /\ rd[r].guard = ReadUpstream
        /\ OpKind(rd[r].op) \in watches
        /\ rd[r].result # {}

\* C5: after any error the engine is eventually Serving again, with a strictly
\* greater generation, and reads of watched kinds are given the cache again.
RecoveryLive ==
    \A g \in 0..(MaxFaults + 1) :
        (state = Recovering /\ generation = g)
            ~> (/\ state = Serving
                /\ generation > g
                /\ \A k \in watches : AcquireReadGuard(k) = ReadCache)

\* C5: a recovery that began after two values were installed has ended in a
\* new served generation.
RecoveryLive_Witness ==
    /\ state = Serving
    /\ generation >= 2
    /\ faults > 0
    /\ Cardinality(store[KindUser]) = 2

\* C6: while Serving, every store holds what the events delivered so far call
\* for when taken in delivery order: for each identity key the last event
\* decides whether a value is present, and which.
EventOrder ==
    state = Serving => \A k \in Kinds : store[k] = expected[k]

\* Within one generation a reader that still holds its cache guard read
\* version 1 of a user, and the store has since moved to version 2 by an event.
EventOrder_Witness ==
    \E r \in Readers, n \in UserNames :
        /\ rd[r].pc = "done"
        /\ rd[r].src = "store"
        /\ rd[r].op = GetUsers
        /\ User(n, 1) \in rd[r].result
        /\ User(n, 2) \in store[KindUser]
        /\ state = Serving
        /\ queue = <<>>

\* C7: after fetch(true) and its apply on a non-singleton collection, the
\* store holds exactly the values of the snapshot that pass the admission
\* filter; every earlier value that is not in the snapshot is gone.
SnapshotInstall ==
    (fx.phase = "done" /\ fx.cacheOK /\ ~fx.c.singleton)
        => store[fx.c.kind]
              = {v \in Range(fx.ans.resources) : Filter(fx.c.kind, v)}

\* An install has both dropped an earlier value and put a new one.
SnapshotInstall_Witness ==
    /\ fx.phase = "done"
    /\ fx.cacheOK
    /\ ~fx.c.singleton
    /\ fx.store0 \ store[fx.c.kind] # {}
    /\ store[fx.c.kind] \ fx.store0 # {}

\* C8: fetch(false) never calls getAll and never fails, and its apply leaves
\* the store empty and puts nothing, singleton or not.
FetchNotCached ==
    (fx.phase \notin {"off", "start"} /\ ~fx.cacheOK)
        => /\ ~fx.contacted
           /\ fx.err = ErrNone
           /\ fx.phase # "failed"
           /\ applyPos = 0
           /\ fx.phase = "done" => store[fx.c.kind] = {}

\* fetch(false) and its apply have run on a singleton collection whose store
\* held a value and whose upstream had values to give.
FetchNotCached_Witness ==
    /\ fx.phase = "done"
    /\ ~fx.cacheOK
    /\ fx.c.singleton
    /\ fx.store0 # {}
    /\ fx.ans.resources # <<>>

\* C9: when getAll answers a singleton snapshot with NotFound, fetch succeeds
\* and its apply clears the store and puts nothing.
SingletonNotFound ==
    (/\ fx.phase \notin {"off", "start"}
     /\ fx.cacheOK
     /\ fx.c.singleton \/ IsSingletonStore(fx.c.kind)
     /\ fx.ans.err = ErrNotFound)
        => /\ fx.err = ErrNone
           /\ fx.phase # "failed"
           /\ applyPos = 0
           /\ fx.phase = "done" => store[fx.c.kind] = {}

\* The absent singleton has been installed over a store that held a value.
SingletonNotFound_Witness ==
    /\ fx.phase = "done"
    /\ fx.cacheOK
    /\ fx.c.singleton
    /\ IsSingletonStore(fx.c.kind)
    /\ fx.ans.err = ErrNotFound
    /\ fx.store0 # {}

\* C10: fetch(true) returns an error, and no apply function, exactly when
\* getAll fails with an error other than NotFound; the store is as it was.
FetchErrorExactly ==
    (fx.phase \notin {"off", "start"} /\ fx.cacheOK)
        => /\ fx.phase = "failed" <=> fx.ans.err \notin {ErrNone, ErrNotFound}
           /\ fx.phase = "failed"
                 => /\ fx.err = fx.ans.err
                    /\ pending = <<>>
                    /\ ~writer
                    /\ store[fx.c.kind] = fx.store0

\* fetch(true) has failed on a store that held a value.
FetchErrorExactly_Witness ==
    /\ fx.phase = "failed"
    /\ fx.cacheOK
    /\ fx.ans.err = ErrUnavailable
    /\ fx.store0 # {}


IndexConsistent ==
    rst.on
        => \A idx \in IndexNames :
              LET out == RsIterate(rst.s, idx, <<>>, <<>>)
              IN /\ Range(out) = rst.have
                 /\ Len(out) = Cardinality(rst.have)
                 /\ \A i \in 1..(Len(out) - 1) :
                       LexLess(Transform(rst.s.indexes, idx, out[i]), Transform(rst.s.indexes, idx, out[i + 1]))

\* After a delete the store still holds three values or more, which the two
\* indexes yield in different orders.
IndexConsistent_Witness ==
    /\ rst.on
    /\ rst.op = "delete"
    /\ Cardinality(rst.have) >= 3
    /\ RsIterate(rst.s, "numbers", <<>>, <<>>) # RsIterate(rst.s, "characters", <<>>, <<>>)

\* C13: right after put(t) of an admitted value, get under every index with
\* t's key of that index returns t.
RoundTrip ==
    (rst.on /\ rst.op = "put" /\ Admitted(rst.s, rst.arg))
        => \A idx \in IndexNames :
              RsGet(rst.s, idx, Transform(rst.s.indexes, idx, rst.arg)) =
                  [err |-> ErrNone, val |-> rst.arg, msg |-> NoMessage]

\* 28, whose keys are "28" and "1c", was just put next to other values.
RoundTrip_Witness ==
    /\ rst.on
    /\ rst.op = "put"
    /\ rst.arg = 28
    /\ rst.s.filtered
    /\ Cardinality(rst.have) >= 3

\* C14: with one caller, get on a store never written is NotFound with the
\* zero value; after put(S) the put has succeeded and get returns S; after
\* clear, and after delete of any argument, get is NotFound again.
SingletonLifecycle ==
    sst.on
        => \A p \in Callers :
              (sst.started = {p} /\ sst.c[p].pc = "done")
                  => LET me == sst.c[p]
                     IN /\ (me.op = "get" /\ sst.allocs = 0)
                              => me.val = 0 /\ me.err = ErrNotFound
                        /\ (me.op = "get" /\ me.eff = NoValue)
                              => me.val = 0 /\ me.err = ErrNotFound
                        /\ (me.op = "get" /\ me.eff # NoValue)
                              => me.val = me.eff /\ me.err = ErrNone
                        /\ me.op = "put"
                              => /\ me.err = ErrNone
                                 /\ SingletonGet(sst.t) = [val |-> me.arg, err |-> ErrNone]
                        /\ me.op \in {"clear", "delete"}
                              => SingletonGet(sst.t) = [val |-> 0, err |-> ErrNotFound]

\* The only caller has put a value and deleted with another argument.
SingletonLifecycle_Witness ==
    \E p \in Callers :
        /\ sst.on
        /\ sst.started = {p}
        /\ sst.c[p].pc = "done"
        /\ sst.c[p].op = "delete"
        /\ sst.allocs = 1
        /\ sst.calls = 2
        /\ sst.t = Nil

\* C15: under any interleaving of put, clear, delete and get, a get returns
\* NotFound or the value of the latest put that took effect before it and has
\* not been cleared since.
SingletonUnique ==
    sst.on
        => \A p \in Callers :
              (sst.c[p].pc = "done" /\ sst.c[p].op = "get")
                  => \/ sst.c[p].err = ErrNotFound
                     \/ /\ sst.c[p].err = ErrNone
                        /\ sst.c[p].eff # NoValue
                        /\ sst.c[p].val = sst.c[p].eff

\* A get returned a value while the other caller, whose put has loaded an
\* older pointer, is about to lose its compare-and-swap.
SingletonUnique_Witness ==
    \E p, q \in Callers :
        /\ sst.on
        /\ sst.c[p].pc = "done"
        /\ sst.c[p].op = "get"
        /\ sst.c[p].err = ErrNone
        /\ sst.c[q].pc = "loaded"
        /\ sst.c[q].old # sst.t
        /\ sst.allocs >= 2

\* C16: in a cert-authority collection, after fetch and apply and after any
\* later onUpdate events, get("id", "<type>/<domain>") finds a CA for every
\* snapshot CA of a whitelisted type (the snapshot's own value right after the
\* install) and is NotFound for every CA of a type that is not whitelisted.
CATypeFilter ==
    (fx.phase \in {"done", "updated"} /\ fx.cacheOK /\ fx.c.kind = KindCertAuthority)
        => \A v \in Values(KindCertAuthority) :
              LET g == ResourceGet(store[KindCertAuthority], "id", KeyOf("id", v))
              IN /\ ~CAFilterMatch(v) => g.err = ErrNotFound
                 /\ (CAFilterMatch(v) /\ v \in Range(fx.ans.resources))
                       => /\ g.err = ErrNone
                          /\ \A x \in g.val : KeyOf("id", x) = KeyOf("id", v)
                          /\ fx.phase = "done" => g.val = {v}

\* The snapshot held a whitelisted and another CA, and an update has since
\* brought the other one again.
CATypeFilter_Witness ==
    /\ fx.phase = "updated"
    /\ fx.cacheOK
    /\ fx.c.kind = KindCertAuthority
    /\ \E v, w \in Range(fx.ans.resources) : CAFilterMatch(v) /\ ~CAFilterMatch(w)
    /\ \E w \in fx.updates : ~CAFilterMatch(w)
    /\ store[KindCertAuthority] # {}


\* The stored values of the kind, with their secrets removed.
Stripped(s) == {WithoutSecrets(v) : v \in s}

\* A facade read that has returned.
Returned(r) == rd[r].pc = "done"

\* C17: GetCertAuthority and GetCertAuthorities called with loadSigningKeys
\* obtain their result from the upstream in every engine state: no value they
\* return has the store as its source.
SigningKeysFromUpstream ==
    \A r \in Readers :
        (/\ Returned(r)
         /\ rd[r].op \in {GetCertAuthority, GetCertAuthorities}
         /\ rd[r].secrets
         /\ rd[r].result # {})
            => /\ rd[r].src = "upstream"
               /\ rd[r].result
                    = UpstreamRead(rd[r], upstream[KindCertAuthority]).result

\* C18: GetCertAuthorities(caType) served from the store returns exactly the
\* stored cert authorities whose type is caType, also when one type name is a
\* prefix of another.
TypeRangeExact ==
    \A r \in Readers :
        (Returned(r) /\ rd[r].op = GetCertAuthorities /\ rd[r].src = "store")
            => rd[r].result
                 = {Project(rd[r].secrets, v) :
                      v \in {w \in store[KindCertAuthority] : w.type = rd[r].arg}}

\* C19: GetUser, GetUsers and ListUsers called with withSecrets return the
\* upstream's answer in every engine state, without a read guard and without
\* reading the store.
UserSecretsBypass ==
    \A r \in Readers :
        (rd[r].pc # "idle" /\ rd[r].op \in {GetUser, GetUsers, ListUsers} /\ rd[r].secrets)
            => LET u == UpstreamRead(rd[r], upstream[KindUser])
               IN /\ Returned(r)
                  /\ rd[r].guard = ""
                  /\ ~rd[r].touched
                  /\ rd[r].src = "upstream"
                  /\ rd[r].err = u.err
                  /\ rd[r].result = u.result
                  /\ rd[r].next = u.next

UserSecretsBypass_Witness ==
    \E r \in Readers :
        /\ Returned(r)
        /\ rd[r].op \in {GetUser, GetUsers, ListUsers}
        /\ rd[r].secrets
        /\ state = Serving
        /\ KindUser \in watches
        /\ store[KindUser] # {}
        /\ Stripped(store[KindUser]) # Stripped(upstream[KindUser])
        /\ \E v \in rd[r].result : v.secret # NoSecret

\* C20: a store-served read called without secrets returns values with their
\* secrets stripped, and returns the same on every store that differs from the
\* current one only in the secret part of its values.
SecretStripping ==
    \A r \in Readers :
        (/\ Returned(r)
         /\ rd[r].touched
         /\ rd[r].src = "store"
         /\ ~rd[r].secrets
         /\ rd[r].op \in {GetUser, GetUsers, ListUsers, GetCertAuthority,
                          GetCertAuthorities})
            => LET k == OpKind(rd[r].op)
               IN /\ \A v \in rd[r].result : v.secret = NoSecret
                  /\ \A s2 \in SecretStates(k) :
                        Stripped(s2) = Stripped(store[k])
                            => LET a == StoreRead(rd[r], s2, upstream[k])
                               IN /\ a.src = "store"
                                  /\ a.err = rd[r].err
                                  /\ a.result = rd[r].result
                                  /\ a.next = rd[r].next

SecretStripping_Witness ==
    \E r \in Readers :
        /\ Returned(r)
        /\ rd[r].touched
        /\ rd[r].src = "store"
        /\ ~rd[r].secrets
        /\ rd[r].op \in {GetUser, GetUsers, ListUsers, GetCertAuthority,
                         GetCertAuthorities}
        /\ \E v \in store[OpKind(rd[r].op)] :
              v.secret # NoSecret /\ WithoutSecrets(v) \in rd[r].result


\* C21: every value a facade read returns from the store is an independent
\* copy: a caller that changes a returned value leaves the store, and with it
\* what later reads return, unchanged.
CloneBoundary ==
    [][\A r \in Readers :
          (rd[r].pc = "done" /\ rd'[r].pc = "mutated") => store' = store]_vars


\* The key the read asks for is absent from the store of its kind.
StoreMiss(r) ==
    ResourceGet(store[OpKind(rd[r].op)],
                IF rd[r].op = GetUser THEN "name" ELSE "id", rd[r].arg).err = ErrNotFound

\* C22: GetUser and GetCertAuthority under a ReadCache guard, the key absent
\* from the store: exactly one upstream read is made; its value is returned
\* when it succeeds, the store's NotFound when it fails.  With the key present
\* no upstream read is made.
OneShotRetry ==
    \A r \in Readers :
        (/\ Returned(r)
         /\ rd[r].guard = ReadCache
         /\ rd[r].op \in {GetUser, GetCertAuthority})
            => LET u == UpstreamRead(rd[r], upstream[OpKind(rd[r].op)])
               IN IF ~StoreMiss(r)
                  THEN rd[r].upcalls = 0 /\ rd[r].src = "store" /\ rd[r].err = ErrNone
                  ELSE /\ rd[r].upcalls = 1
                       /\ u.err = ErrNone
                            => /\ rd[r].src = "upstream"
                               /\ rd[r].err = ErrNone
                               /\ rd[r].result = u.result
                       /\ u.err # ErrNone
                            => /\ rd[r].err = ErrNotFound
                               /\ rd[r].result = {}

\* The fallback read failed with an error other than NotFound.
OneShotRetry_Witness ==
    \E r \in Readers :
        /\ Returned(r)
        /\ rd[r].guard = ReadCache
        /\ rd[r].op \in {GetUser, GetCertAuthority}
        /\ StoreMiss(r)
        /\ store[OpKind(rd[r].op)] # {}
        /\ rd[r].upcalls = 1
        /\ UpstreamRead(rd[r], upstream[OpKind(rd[r].op)]).err = ErrUnavailable
        /\ rd[r].err = ErrNotFound


\* Caller p's read is GetCertAuthority without signing keys and p has read the
\* upstream for it with success.
FnCalledFor(p) ==
    /\ fnc.c[p].call.op = GetCertAuthority
    /\ ~fnc.c[p].call.secrets
    /\ fnc.c[p].called
    /\ fnc.c[p].pc = "done"
    /\ fnc.c[p].err = ErrNone

\* Two callers read the upstream for the same key in the same generation and
\* within one TTL of each other.
FnSameWindow(p, q) ==
    /\ p # q
    /\ KeyOfCaller(p) = KeyOfCaller(q)
    /\ fnc.c[p].gen = fnc.c[q].gen
    /\ fnc.c[p].t < fnc.c[q].t + TTL
    /\ fnc.c[q].t < fnc.c[p].t + TTL

\* C23 as stated: concurrent or repeated store misses of GetCertAuthority(id,
\* false) within one TTL window cause a single upstream call.
MissThroughFnCache ==
    \A p, q \in Callers :
        (/\ FnCalledFor(p) /\ fnc.c[p].guard = ReadCache
         /\ FnCalledFor(q) /\ fnc.c[q].guard = ReadCache)
            => ~FnSameWindow(p, q)

\* C23, amended: GetCertAuthority(id, false) under a guard that is not
\* ReadCache reads the upstream only through the FnCache, and two such reads of
\* the same id in one generation and one TTL window never both call the
\* upstream with success.
UpstreamThroughFnCache ==
    /\ \A p \in Callers :
          (/\ fnc.c[p].pc # "idle"
           /\ fnc.c[p].call.op = GetCertAuthority
           /\ ~fnc.c[p].call.secrets
           /\ fnc.c[p].guard # ReadCache)
              => (fnc.c[p].pc = "done" => fnc.c[p].via \in {"entry", "flight", "loader"})
    /\ \A p, q \in Callers :
          (/\ FnCalledFor(p) /\ fnc.c[p].guard # ReadCache
           /\ FnCalledFor(q) /\ fnc.c[q].guard # ReadCache)
              => ~FnSameWindow(p, q)

\* Two concurrent reads under ReadUpstream were answered by one upstream call.
UpstreamThroughFnCache_Witness ==
    \E p, q \in Callers :
        /\ p # q
        /\ FnCalledFor(p)
        /\ fnc.c[p].guard = ReadUpstream
        /\ fnc.c[p].via = "loader"
        /\ fnc.c[q].pc = "done"
        /\ fnc.c[q].call = fnc.c[p].call
        /\ fnc.c[q].guard = ReadUpstream
        /\ fnc.c[q].via \in {"flight", "entry"}
        /\ ~fnc.c[q].called
        /\ fnc.c[q].val = fnc.c[p].val
        /\ fnc.c[q].val.res # {}


\* The names the walk has returned so far, and the names in the store.
PgReturned == UNION {pg.pages[i] : i \in 1 .. Len(pg.pages)}

PgStored == {u.name : u \in {w \in store[KindUser] : Match(pg.filter, w)}}

\* C24: the pages of a walk hold at most page_size users each, in ascending
\* name order with no user twice; each non-empty token is the first key not
\* yet returned; when the walk ends every stored user has been returned.
ListUsersComplete ==
    pg.on =>
        /\ \A i \in 1 .. Len(pg.pages) : Cardinality(pg.pages[i]) <= pg.size
        /\ \A i, j \in 1 .. Len(pg.pages) :
              i < j => \A a \in pg.pages[i], b \in pg.pages[j] :
                          LexLess(Bytes(a), Bytes(b))
        /\ PgReturned \subseteq PgStored
        /\ pg.token # <<>> =>
              \E n \in PgStored \ PgReturned :
                  /\ pg.token = Bytes(n)
                  /\ \A m \in PgStored \ PgReturned : ~LexLess(Bytes(m), Bytes(n))
        /\ pg.pc = "done" => PgReturned = PgStored

\* C28: onUpdate with a T or a wrapper around a T succeeds and the store is the
\* one before with the value put (found under its identity key when the
\* store's filter admits it); with any other carrier, a wrapper around another
\* type included, it fails with BadParameter and the store is unchanged.
CarrierRecovery ==
    (fx.phase = "handler" /\ fx.op = Upsert)
        => LET k == fx.c.kind
               r == fx.res
           IN IF r.carrier \in {"typed", "wrapped"} /\ r.val \in Values(k)
              THEN /\ fx.err = ErrNone
                   /\ store[k] = StorePut(k, fx.store0, r.val)
                   /\ Filter(k, r.val) => r.val \in store[k]
                   /\ (Filter(k, r.val) /\ ~IsSingletonStore(k))
                         => ResourceGet(store[k], CHOOSE i \in Indexes(k) : TRUE,
                                        IdentityKey(r.val)).val = {r.val}
              ELSE /\ fx.err = ErrBadParameter
                   /\ store[k] = fx.store0

\* A wrapper around a value of another type was rejected by a collection whose
\* store holds a value that an earlier wrapper around a T replaced.
CarrierRecovery_Witness ==
    /\ fx.phase = "handler"
    /\ fx.op = Upsert
    /\ fx.res.carrier = "wrapped-other"
    /\ fx.err = ErrBadParameter
    /\ \E x \in store[fx.c.kind] : x.ver = 2

\* C29: onDelete with a bare header removes the value with the header's
\* identity when the collection has a headerTransform; without one it fails
\* with BadParameter and the store is unchanged.
DeleteByHeader ==
    (fx.phase = "handler" /\ fx.op = Delete /\ fx.res.carrier = "header")
        => LET k == fx.c.kind
               h == fx.res.val
               same(x) == x.kind = h.kind /\ x.name = h.name /\ x.type = h.type
           IN IF fx.ht
              THEN /\ fx.err = ErrNone
                   /\ store[k] = {x \in fx.store0 : ~same(x)}
              ELSE /\ fx.err = ErrBadParameter
                   /\ store[k] = fx.store0

\* A header delete removed a stored user and left another user in the store.
DeleteByHeader_Witness ==
    /\ fx.phase = "handler"
    /\ fx.op = Delete
    /\ fx.res.carrier = "header"
    /\ fx.ht
    /\ fx.err = ErrNone
    /\ store[fx.c.kind] # {}
    /\ store[fx.c.kind] # fx.store0

\* C30: get for a key with no stored value (never put, rejected by the filter,
\* deleted or cleared) returns the zero value and NotFound with the message
\* no value for key "<key>" in index "<index>".
GetNotFound ==
    rst.on
        => \A idx \in IndexNames, t \in Items \ rst.have :
              RsGet(rst.s, idx, Transform(rst.s.indexes, idx, t)) =
                  [err |-> ErrNotFound, val |-> 0,
                   msg |-> Sprintf("no value for key %q in index %q",
                                   <<Transform(rst.s.indexes, idx, t), idx>>)]

Taken ==
    LET used == stm.res.used
    IN CASE stm.op = "Flatten" ->
              {<<j, 0>> : j \in 1 .. used[1]}
              \cup UNION {{<<j, i>> : i \in 1 .. used[j + 1]} : j \in 1 .. Len(stm.a)}
         [] stm.op \in {"Chain", "MergeStreams"} ->
              {<<1, i>> : i \in 1 .. used[1]} \cup {<<2, i>> : i \in 1 .. used[2]}
         [] OTHER -> {<<1, i>> : i \in 1 .. used[1]}

PairAt(p) ==
    CASE stm.op = "Flatten" -> IF p[2] = 0 THEN stm.a[p[1]] ELSE stm.a[p[1]].v[p[2]]
      [] stm.op \in {"Chain", "MergeStreams"} -> IF p[1] = 1 THEN stm.a[p[2]] ELSE stm.b[p[2]]
      [] OTHER -> stm.a[p[2]]

TakenBefore(p, q) == p[1] < q[1] \/ (p[1] = q[1] /\ p[2] < q[2])

ErrorsIn(out) == {i \in 1 .. Len(out) : out[i].err}

\* C32: Chain, FilterMap, MapWhile, Skip, Flatten, Chunks and RateLimit yield
\* at most one error and nothing after it; when a pair they took from an input
\* is an error, the output ends with exactly one error and that pair is the
\* last one taken from any input.
ShortCircuit ==
    stm.op \in {"Chain", "FilterMap", "MapWhile", "Skip", "Flatten", "Chunks", "RateLimit"}
        => LET out == stm.res.out
           IN /\ ErrorsIn(out) \subseteq {Len(out)}
              /\ \A p \in Taken :
                    PairAt(p).err
                        => /\ ErrorsIn(out) = {Len(out)}
                           /\ \A q \in Taken : q = p \/ TakenBefore(q, p)

\* Chain took the error of its first stream after one item and nothing from
\* its second stream, which has items.
ShortCircuit_Witness ==
    /\ stm.op = "Chain"
    /\ stm.a = <<Value(1), Failed, Value(2)>>
    /\ Len(stm.b) > 0
    /\ stm.want = NoLimit
    /\ stm.res = Done(<<Value(1), Failed>>, <<2, 0>>)

\* The items of an error-free stream, and the concatenation of chunks.
ItemsOf(t) == [i \in 1 .. Len(t) |-> t[i].v]

RECURSIVE Concat(_)
Concat(chunks) ==
    IF chunks = <<>> THEN <<>> ELSE Head(chunks).v \o Concat(Tail(chunks))

\* C33: Chunks with size >= 1 over an error-free input, consumed to its end,
\* yields chunks whose concatenation is the input, none empty, each of exactly
\* size items except possibly the last; with size < 1 it yields nothing and
\* takes nothing from the input.
ChunksExact ==
    stm.op = "Chunks"
        => LET out == stm.res.out
           IN /\ stm.n < 1 => stm.res = Done(<<>>, <<0>>)
              /\ (stm.n >= 1 /\ ErrorsIn(stm.a) = {} /\ stm.want = NoLimit)
                    => /\ ErrorsIn(out) = {}
                       /\ Concat(out) = ItemsOf(stm.a)
                       /\ \A i \in 1 .. Len(out) :
                             /\ Len(out[i].v) >= 1
                             /\ Len(out[i].v) <= stm.n
                             /\ i < Len(out) => Len(out[i].v) = stm.n

\* Three items in chunks of two: a full chunk and a shorter last one.
ChunksExact_Witness ==
    /\ stm.op = "Chunks"
    /\ stm.n = 2
    /\ stm.want = NoLimit
    /\ stm.a = <<Value(1), Value(2), Value(1)>>
    /\ stm.res.out = <<Value(<<1, 2>>), Value(<<1>>)>>

\* The stream is sorted under less: no item is less than an earlier one.
Sorted(t) == \A i, j \in 1 .. Len(t) : i < j => ~Less(t[j].v, t[i].v)

Count(t, x) == Cardinality({i \in 1 .. Len(t) : t[i].v = x})

\* C34: MergeStreams over two error-free streams sorted under less, consumed
\* to its end, yields a sorted error-free stream that holds every item as many
\* times as the two inputs together.
MergeSorted ==
    (/\ stm.op = "MergeStreams"
     /\ stm.want = NoLimit
     /\ ErrorsIn(stm.a) = {} /\ Sorted(stm.a)
     /\ ErrorsIn(stm.b) = {} /\ Sorted(stm.b))
        => LET out == stm.res.out
           IN /\ ErrorsIn(out) = {}
              /\ Sorted(out)
              /\ Len(out) = Len(stm.a) + Len(stm.b)
              /\ \A x \in StreamValues :
                    Count(out, x) = Count(stm.a, x) + Count(stm.b, x)

\* The second stream starts below the first and the first ends first.
MergeSorted_Witness ==
    /\ stm.op = "MergeStreams"
    /\ stm.want = NoLimit
    /\ stm.a = <<Value(2)>>
    /\ stm.b = <<Value(1), Value(2), Value(2)>>
    /\ stm.res.out = <<Value(1), Value(2), Value(2), Value(2)>>
    /\ stm.res.used = <<1, 3>>

\* C35: a put whose compare-and-swap finds another pointer than the one it
\* loaded returns CompareFailed and leaves the pointer as it is; a put with no
\* write between its load and its swap succeeds and installs its value.
PutCompareAndSwap ==
    [][\A p \in Callers :
          (sst.on /\ sst.c[p].pc = "loaded" /\ sst'.c[p].pc = "done")
              => /\ sst.t # sst.c[p].old
                    => /\ sst'.c[p].puterr = ErrCompareFailed
                       /\ sst'.t = sst.t
                       /\ SingletonGet(sst'.t) = SingletonGet(sst.t)
                 /\ sst.wr = sst.c[p].seen
                    => /\ sst'.c[p].puterr = ErrNone
                       /\ SingletonGet(sst'.t) = [val |-> sst.c[p].arg, err |-> ErrNone]
                 /\ sst'.c[p].puterr \in {ErrNone, ErrCompareFailed}]_vars

\* Two puts raced: one won, the other lost its compare-and-swap and the
\* store holds the winner's value.
PutCompareAndSwap_Witness ==
    \E p, q \in Callers :
        /\ sst.on
        /\ sst.c[p].pc = "done" /\ sst.c[p].op = "put" /\ sst.c[p].err = ErrNone
        /\ sst.c[q].pc = "done" /\ sst.c[q].op = "put"
        /\ sst.c[q].err = ErrCompareFailed
        /\ sst.c[p].arg # sst.c[q].arg
        /\ SingletonGet(sst.t) = [val |-> sst.c[p].arg, err |-> ErrNone]

\* C36: for the static-tokens collection as its constructor builds it, while
\* the apply function of a successful fetch(true) runs over a store that holds
\* a value, the store is never empty: the value is replaced, not cleared.
StaticTokensNoEmptyGap ==
    (/\ fx.phase \in {"fetched", "done"}
     /\ fx.c = NewCollection(KindStaticTokens)
     /\ fx.cacheOK
     /\ fx.ans.err = ErrNone
     /\ fx.ans.resources # <<>>
     /\ fx.store0 # {})
        => store[KindStaticTokens] # {}

\* C37: the call of fetch leaves the store as it is whatever getAll answers,
\* and until apply has returned every step that changes the store is a step
\* of the apply function, taken under the write lock.
FetchOutsideApply ==
    [][/\ fx.phase = "start" => store' = store
       /\ (fx.phase \in {"start", "fetched", "failed"} /\ store' # store)
             => /\ fx.phase = "fetched"
                /\ writer
                /\ pending # <<>>
                /\ \A k \in Kinds \ {fx.c.kind} : store'[k] = store[k]]_vars

\* fetch has returned an apply function whose snapshot differs from the
\* store, and the apply function has not run: the store is as before the call.
FetchOutsideApply_Witness ==
    /\ fx.phase = "fetched"
    /\ fx.cacheOK
    /\ ~writer
    /\ pending # <<>>
    /\ fx.ans.resources # <<>>
    /\ fx.store0 # {}
    /\ Range(fx.ans.resources) # fx.store0
    /\ store[fx.c.kind] = fx.store0

\* C38: a response of ListUsers served from the store carries a token exactly
\* when a stored user that matches the filter sorts after the last user of
\* its page; a store holding exactly page_size matching users is listed in
\* one full page with no token.
TokenIffMore ==
    (pg.on /\ pg.pages # <<>>)
        => LET last == pg.pages[Len(pg.pages)]
           IN /\ pg.token # <<>>
                    <=> /\ last # {}
                        /\ \E n \in PgStored :
                              \A m \in last : LexLess(Bytes(m), Bytes(n))
              /\ (Len(pg.pages) = 1 /\ Cardinality(PgStored) = pg.size)
                    => last = PgStored /\ pg.token = <<>>

\* The first page is full and has no token: the store holds page_size
\* matching users and, after them, a user that the filter rejects.
TokenIffMore_Witness ==
    /\ pg.on
    /\ Len(pg.pages) = 1
    /\ Cardinality(pg.pages[1]) = pg.size
    /\ pg.size = 2
    /\ pg.token = <<>>
    /\ pg.pc = "done"
    /\ Cardinality(store[KindUser]) = 3
    /\ pg.filter # NoFilter

\* C39: onUpdate returns an error exactly when its carrier is not a T; when
\* the put it called lost its compare-and-swap, onUpdate still returns nil and
\* the pointer of the event's value has not been installed.
OnUpdateDiscardsPutError ==
    sst.on
        => \A p \in Callers :
              (sst.c[p].pc = "done" /\ sst.c[p].op = "onUpdate")
                  => LET me == sst.c[p]
                     IN /\ me.err # ErrNone <=> me.carrier # "typed"
                        /\ me.err # ErrNone
                              => me.err = ErrBadParameter /\ me.mine = 0
                        /\ me.puterr = ErrCompareFailed
                              => /\ me.err = ErrNone
                                 /\ sst.t.id # me.mine

\* onUpdate has returned nil although its put returned CompareFailed: the
\* store holds the value of the other caller's put, not the event's.
OnUpdateDiscardsPutError_Witness ==
    \E p, q \in Callers :
        /\ sst.on
        /\ sst.c[p].pc = "done"
        /\ sst.c[p].op = "onUpdate"
        /\ sst.c[p].puterr = ErrCompareFailed
        /\ sst.c[p].err = ErrNone
        /\ sst.c[q].pc = "done"
        /\ sst.c[q].op = "put"
        /\ SingletonGet(sst.t) = [val |-> sst.c[q].arg, err |-> ErrNone]
        /\ sst.c[q].arg # sst.c[p].arg

\* C40: in a filtered store that holds v under the keys of v', put(v') of a
\* value the filter rejects leaves the store as it was: get under each of the
\* keys still returns v, and every index still yields what it yielded.
RejectedPutKeepsOld ==
    (/\ rst.on
     /\ rst.op = "put"
     /\ rst.s.filtered
     /\ ~IsEven(rst.arg)
     /\ \E idx \in IndexNames :
           RsGet(rst.prev, idx, Transform(rst.prev.indexes, idx, rst.arg)).err = ErrNone)
        => /\ rst.s = rst.prev
           /\ \A idx \in IndexNames :
                 LET key == Transform(rst.s.indexes, idx, rst.arg)
                 IN /\ RsGet(rst.s, idx, key) = RsGet(rst.prev, idx, key)
                    /\ RsGet(rst.s, idx, key).err = ErrNone
                    /\ RsGet(rst.s, idx, key).val # rst.arg
                    /\ RsGet(rst.s, idx, key).val \in rst.have
                    /\ RsIterate(rst.s, idx, <<>>, <<>>) = RsIterate(rst.prev, idx, <<>>, <<>>)

\* 17, which the filter rejects, was just put into a store that holds 16 under
\* the keys of 17, next to another value.
RejectedPutKeepsOld_Witness ==
    /\ rst.on
    /\ rst.op = "put"
    /\ rst.s.filtered
    /\ rst.arg = 17
    /\ rst.s.indexes = VersionIndexes
    /\ RsGet(rst.s, "numbers", Transform(VersionIndexes, "numbers", 17)).val = 16
    /\ Cardinality(rst.have) >= 2

\* Caller p leads a flight: its loader is about to run or has run.
FnLeads(p) == fnc.c[p].pc \in {"loading", "loaded"}

\* C25: of the concurrent gets of one key with no unexpired entry exactly one
\* runs the loader; the callers waiting for the key receive that loader's
\* result; the loader never runs while an unexpired entry of the key exists,
\* and no two loaders of one key succeed within one TTL window.
FnSingleFlight ==
    /\ [](\A p, q \in Callers :
            /\ (p # q /\ FnLeads(p) /\ FnLeads(q))
                  => ~(FnOf(p) = FnOf(q) /\ KeyOfCaller(p) = KeyOfCaller(q))
            /\ (/\ fnc.c[p].pc = "done" /\ fnc.c[p].via = "loader"
                /\ fnc.c[p].err = ErrNone
                /\ fnc.c[q].pc = "done" /\ fnc.c[q].via = "loader"
                /\ fnc.c[q].err = ErrNone)
                  => ~FnSameWindow(p, q))
    /\ [][\A p \in Callers :
            /\ (fnc.c[p].pc = "loading" /\ fnc'.c[p].pc = "loaded")
                  => ~FnValid(fnc.entry[FnOf(p)][KeyOfCaller(p)], fnc.now)
            /\ (fnc.c[p].pc = "loaded" /\ fnc'.c[p].pc = "done")
                  => \A q \in FnWaiters(p) :
                        /\ fnc'.c[q].pc = "done"
                        /\ fnc'.c[q].val = fnc'.c[p].val
                        /\ fnc'.c[q].err = fnc'.c[p].err
                        /\ fnc'.c[q].val = fnc.flight[FnOf(p)][KeyOfCaller(p)].val
                        /\ ~fnc'.c[q].called]_vars

\* A waiting caller has received the leader's value.
FnSingleFlight_Witness ==
    \E p, q \in Callers :
        /\ fnc.c[p].pc = "done" /\ fnc.c[p].via = "loader"
        /\ fnc.c[q].pc = "done" /\ fnc.c[q].via = "flight"
        /\ fnc.c[q].call = fnc.c[p].call
        /\ fnc.c[q].val = fnc.c[p].val
        /\ fnc.c[p].err = ErrNone
        /\ fnc.c[p].val.res # {}

\* C26: when the loader fails, the callers of its flight receive the error,
\* no entry is stored, and the key has no unexpired entry and no flight, so
\* the next get of the key runs the loader again.
FnNoErrorCaching ==
    [][\A p \in Callers :
          LET i == FnOf(p)
              k == KeyOfCaller(p)
          IN (/\ fnc.c[p].pc = "loaded"
              /\ fnc'.c[p].pc = "done"
              /\ fnc.flight[i][k].err # ErrNone)
                => /\ fnc'.entry = fnc.entry
                   /\ ~FnValid(fnc'.entry[i][k], fnc'.now)
                   /\ ~fnc'.flight[i][k].busy
                   /\ \A q \in FnWaiters(p) \cup {p} :
                         fnc'.c[q].pc = "done" /\ fnc'.c[q].err = fnc.flight[i][k].err]_vars

\* After a failed flight, whose leader has not yet returned, another caller's
\* get of the same key is running the loader again.
FnNoErrorCaching_Witness ==
    \E p, q \in Callers :
        /\ fnc.c[p].pc = "done" /\ fnc.c[p].via = "loader"
        /\ fnc.c[p].err # ErrNone
        /\ FnLeads(q)
        /\ FnOf(q) = FnOf(p)
        /\ KeyOfCaller(q) = KeyOfCaller(p)
        /\ fnc.c[q].t = fnc.c[p].t
        /\ fnc.c[q].pc = "loaded"

\* C27: a get returns no value that was read in a generation before the one
\* the get was issued in, and the FnCache of a generation holds no such value.
FnGenerationScoped ==
    /\ \A p \in Callers :
          (fnc.c[p].pc = "done" /\ fnc.c[p].via \in {"entry", "flight", "loader"})
              => fnc.c[p].val.gen >= fnc.c[p].gen
    /\ \A i \in Instances, k \in FnKeys :
          fnc.entry[i][k].has => fnc.entry[i][k].val.gen >= i

\* A get issued after the advance was answered by a new load while the entry
\* loaded before the advance has not expired.
FnGenerationScoped_Witness ==
    \E p \in Callers :
        /\ fnc.c[p].pc = "done"
        /\ fnc.c[p].via \in {"entry", "loader"}
        /\ fnc.c[p].gen > 0
        /\ fnc.c[p].err = ErrNone
        /\ \E i \in Instances :
              /\ i < fnc.c[p].gen
              /\ FnValid(fnc.entry[i][KeyOfCaller(p)], fnc.now)
              /\ fnc.entry[i][KeyOfCaller(p)].val.gen < fnc.c[p].val.gen

====
